---- MODULE Spec2Model ----
(***************************************************************************)
(* A model of the sensor supervision core of eclssd:                       *)
(*   - ExpBackoff            (lib/eclss/src/retry.rs)                      *)
(*   - SharedBus             (lib/eclss/src/lib.rs)                        *)
(*   - Eclss::run_sensor     (lib/eclss/src/sensor.rs)                     *)
(*   - the daemon's join loop (eclssd/src/main.rs)                         *)
(*   - the SGP30 adapter     (lib/eclss/src/sensor/sgp30.rs)               *)
(*   - the SCD41 pressure compensation (lib/eclss/src/sensor/scd.rs)       *)
(*   - StateFile             (eclssd/src/storage.rs)                       *)
(*   - PollCount and the absolute-humidity stride (lib/eclss/src/sensor.rs)*)
(*   - SensorMetrics and /metrics.json (lib/eclss/src/metrics.rs,          *)
(*     lib/eclss-axum/src/lib.rs)                                          *)
(* Durations are in milliseconds, as in ExpBackoff's fields.  All values   *)
(* of the model are far below 2^32, so the `as u32` cast of retry.rs:48    *)
(* and the usize product of retry.rs:42 keep their values.                 *)
(***************************************************************************)
EXTENDS Integers, Sequences, FiniteSets, TLC

VARIABLES
    cfg,          \* the retry configuration: initial_ms, max_ms, max_init_attempts
    bk,           \* one ExpBackoff driven directly by wait/reset/current calls
    sensors,      \* args.sensors: the sensors the daemon was asked to run
    capacity,     \* the SENSORS capacity of the registry and counter families
    registry,     \* the sensor names registered so far
    pc,           \* per sensor: where its run_sensor task stands
    status,       \* per sensor: the StatusCell
    errors,       \* per sensor: the sensor_errors counter
    resets,       \* per sensor: the sensor_reset_count counter
    exp,          \* per sensor: State.backoff.exp
    attempts,     \* per sensor: run_sensor's local `attempts`
    has_come_up,  \* per sensor: run_sensor's local `has_come_up`
    bus,          \* the SharedBus mutex: its holder and its FIFO of waiters
    mainState,    \* main's join loop: "joining" or "exited"
    faults,       \* the errors the devices of this run can make adapter calls return
    trail,        \* history: "fresh" until first Up, "up", then "reset" once a should-reset
                  \* failure followed Up, then "reinit" once Initializing was written after it
    failedCalls,  \* history: init and poll calls that returned an error
    calls,        \* history, per sensor: the last adapter call that returned and
                  \* the number of init calls that returned Ok, and the I2C kind
                  \* of the error that call returned ("-" if it returned Ok)
    sgp,          \* the SGP30 adapter, its device's readings and its baseline store
    scd,          \* the SCD41 adapter's pressure compensation
    sf,           \* a StateFile: the file's lines, the open file's cursor, history
    pollCount,    \* an adapter's PollCount, its stride and its publishing history
    families,     \* SensorMetrics: per metric family, the labels that have a value
    response,     \* history: the last HTTP response: its route, its body (the
                  \* families' entries in `body`, the counters' or the status
                  \* cells' values in `values`) and the metrics as they were
    gauges,       \* the adapters constructed, the gauges each one holds, and
                  \* history: the gauge writes and family reads of their polls
    ens,          \* the ENS160 adapter's init loop and its device's compensation
    bme,          \* the BME680 adapter's poll: its retry loop and what it published
    sensorName,   \* a text, the SensorName parsed from it and what that displays
    packet,       \* a PMSA003I packet and what Reading::from_bytes made of it
    counter       \* a Config with a poll interval, and the PollCount made of them

\* The adapter and library parts that are modelled each on its own.
drvVars == <<gauges, ens, bme, sensorName, packet, counter>>

libVars == <<sf, pollCount, families, response, drvVars>>

vars == <<cfg, bk, sensors, capacity, registry, pc, status, errors, resets, exp,
          attempts, has_come_up, bus, mainState, faults, trail, failedCalls, calls, sgp, scd,
          sf, pollCount, families, response, gauges, ens, bme, sensorName, packet,
          counter>>

supVars == <<sensors, capacity, registry, pc, status, errors, resets, exp,
             attempts, has_come_up, bus, mainState, faults, trail, failedCalls, calls, sgp, scd,
             libVars>>

\* Everything but the state file, the poll counter and the metric families.
progVars == <<cfg, bk, sensors, capacity, registry, pc, status, errors, resets, exp,
              attempts, has_come_up, bus, mainState, faults, trail, failedCalls, calls,
              sgp, scd>>

(***************************************************************************)
(* Bounds of the model.                                                    *)
(***************************************************************************)
MaxInitialMs == 3
MaxMaxMs == 4
MaxWaits == 7
MaxErrors == 3
MaxInitAttempts == 2

None == "None"
NoTask == "NoTask"

(***************************************************************************)
(* ExpBackoff (retry.rs).                                                  *)
(***************************************************************************)
\* ExpBackoff::new and Clone::clone: exp starts at 0.
new_exp == 0

\* ExpBackoff::reset stores 1.
reset_exp_bad == new_exp
reset_exp == 1

\* ExpBackoff::current_ms: initial_ms * exp.
current_ms(initial_ms, e) == initial_ms * e

\* The `current < self.max_ms` test of ExpBackoff::wait.
below_max(current, max_ms) == current < max_ms

\* A wait that sleeps for the delay of the counter it leaves.
wait_delay_bumped(initial_ms, e) == initial_ms * (e + 1)

\* ExpBackoff::wait: the delay it sleeps for.
wait_delay(initial_ms, e) == initial_ms * e

\* ExpBackoff::wait: the counter it leaves.
wait_exp_bad(initial_ms, max_ms, e) ==
    IF below_max(initial_ms * e, max_ms) /\ e > 0 THEN e - 1 ELSE e
wait_exp(initial_ms, max_ms, e) ==
    IF below_max(initial_ms * e, max_ms) THEN e + 1 ELSE e

AllSensors == {"SGP30", "SCD41", "BME680", "ENS160"}

\* The two sensors of the runs in which tasks share the bus.
DaemonSensors == {"SGP30", "SCD41"}

\* Sgp30::new(..).with_storage(store): no calibration poll counted and no
\* baseline known.  `file` is the baseline the store holds, `device` the
\* baseline set on the device since its last init command, `tvoc` the value
\* of the tvoc gauge; an Option is the empty set or a singleton.  History:
\* `loads` counts the load calls, `loaded` is the baseline that load last
\* returned as Ok(Some), `known` is the baseline that load last
\* returned or store last accepted, `op` describes the last poll that
\* returned (whether it called store, and the status cell,
\* last_good_baseline and `known` at that moment), `ep` follows a run of
\* saturated readings, `reading` is the TVOC that the last poll measured
\* (none if it failed before) and `measured` counts the polls that measured,
\* up to CALIBRATION_POLLS + 2.
NoStore == [stored |-> FALSE, at |-> "-", prev |-> {}, known |-> {}]
NoEpisode == [n |-> 0, base |-> 0, errs |-> 0, done |-> FALSE, delta |-> 0]
Sgp30New(file) ==
    [calibration_polls |-> 0, last_good_baseline |-> {}, file |-> file,
     device |-> {}, tvoc |-> {}, loads |-> 0, known |-> {}, op |-> NoStore,
     ep |-> NoEpisode, loaded |-> {}, reading |-> {}, measured |-> 0]

\* Scd41::new: `mean` is the mean of the pressure_hpa family, in tenths of
\* a pascal (the empty set while no pressure has been recorded).  History:
\* `polled`, the mean `seen` by the last poll and the pressure it `sent`
\* with set_ambient_pressure.
Scd41New == [mean |-> {}, polled |-> FALSE, seen |-> {}, sent |-> {}]

\* StateDir::sensor_state: the state file opened for reading and writing,
\* created if missing and never truncated, its cursor at the start.  `file`
\* is the file's text as its sequence of `key = value` lines.  History: the
\* last call (`op`), the baseline of the last store that returned Ok
\* (`stored`, the empty set while there was none), what the last load
\* returned (`res`: ok with `val` empty is Ok(None)), whether a store
\* returned with no load after it yet (`afterStore`) and whether the last
\* load was the next load after a store (`next`).
StateFileOpen(lines) ==
    [file |-> lines, cursor |-> 0, op |-> "open", stored |-> {},
     res |-> [ok |-> TRUE, val |-> {}], afterStore |-> FALSE, next |-> FALSE]

\* Config::poll_counter: a PollCount of adapter `a` with stride `n`, its
\* 32-bit Wrapping counter kept as two 16-bit halves.  History: the number
\* of polls so far (`n`), whether the last poll returned Ok (`ok`) and
\* published the absolute humidity (`published`).  Over the counted polls:
\* those since the last publishing one (`since`), whether the counter
\* wrapped (`wrapped`) or an incomplete reading fell on a publishing turn
\* (`missed`) since then, whether a poll published (`any`), and for the
\* last publishing poll whether one came before it (`had`), the counted
\* polls from that one to it (`gap`) and `wrapped` and `missed` as it found
\* them.  Over the polls that returned Ok: `okSince`, `okAny`, `okHad` and
\* `okGap` likewise.
PollCountNew(a, n, h, l) ==
    [adapter |-> a, abs_humidity_interval |-> n, hi |-> h, lo |-> l,
     n |-> 0, ok |-> FALSE, published |-> FALSE,
     since |-> 0, wrapped |-> FALSE, missed |-> FALSE, any |-> FALSE,
     had |-> FALSE, gap |-> 0, gapWrapped |-> FALSE, gapMissed |-> FALSE,
     okSince |-> 0, okAny |-> FALSE, okHad |-> FALSE, okGap |-> 0]

\* The fields of SensorMetrics, in declaration order.
Families ==
    {"temp_c", "co2_ppm", "eco2_ppm", "rel_humidity_percent",
     "abs_humidity_grams_m3", "pressure_hpa", "gas_resistance", "tvoc_ppb",
     "tvoc_iaq_index", "nox_iaq_index", "pm_conc", "pm_count",
     "sensor_errors", "sensor_reset_count"}

\* SensorMetrics::new: no metric is registered in any family.  Per family,
\* `reg` holds the labels registered and `rec` those that have been recorded.
SensorMetricsNew == [f \in Families |-> [reg |-> {}, rec |-> {}]]

\* No request has been answered: there is no body.
NoResponse ==
    [served |-> FALSE, route |-> "-", body |-> <<>>, at |-> SensorMetricsNew,
     values |-> <<>>]

\* No adapter is constructed: no gauge is held, written or read.
GaugesNew == [features |-> {}, built |-> {}, failed |-> {}, writes |-> {}, reads |-> {}]

\* Ens160::new over a device just powered on: nothing is written to the
\* device's compensation inputs TEMP_IN and RH_IN.  History: `last` tells
\* whether init's last read of the device status returned an error or a
\* validity flag, and `tick` flips on each such read; `poll` holds the means
\* that the last poll saw and whether the poll got past the compensation,
\* until the next init.
Ens160New ==
    [warmup |-> 0, setup |-> 0, temp_in |-> {}, rh_in |-> {}, last |-> "-",
     tick |-> 0, poll |-> [temp |-> {}, rh |-> {}, compensated |-> FALSE]]

\* Bme680::new: no poll is counted.  `timeouts` is poll's local count of
\* timed-out measurements, 0 outside a poll call.  History: `outcome` is
\* what the last call of measure returned.
Bme680New == [timeouts |-> 0, polls |-> 0, outcome |-> "-"]

\* No name is parsed, no packet decoded, no poll counter made of a Config.
NoSensorName == [op |-> "-", text |-> <<>>, parsed |-> {}, of |-> {}, shown |-> <<>>]
NoPacket == [state |-> "idle", bytes |-> <<>>, result |-> [kind |-> "-"]]
NoCounter ==
    [state |-> "idle", abs_humidity_interval |-> 1, log_reading_interval |-> 0,
     poll_interval |-> 0, interval |-> 0, i |-> 0, log_info_interval |-> 0,
     polls |-> 0, asked |-> "-", answer |-> {}]

DrvIdle ==
    /\ gauges = GaugesNew
    /\ ens = Ens160New
    /\ bme = Bme680New
    /\ sensorName = NoSensorName
    /\ packet = NoPacket
    /\ counter = NoCounter

\* No state file, poll counter or metric takes part.
LibIdle ==
    /\ DrvIdle
    /\ sf = StateFileOpen(<<>>)
    /\ pollCount = PollCountNew("-", 1, 0, 0)
    /\ families = SensorMetricsNew
    /\ response = NoResponse

\* No SGP30 or SCD41 adapter takes part.
AdaptersIdle == sgp = Sgp30New({}) /\ scd = Scd41New /\ LibIdle

\* The state of an idle supervisor, used where only the backoff is driven.

IdleSup ==
    /\ sensors = {}
    /\ capacity = 0
    /\ registry = {}
    /\ pc = [s \in AllSensors |-> "disabled"]
    /\ status = [s \in AllSensors |-> "Unknown"]
    /\ errors = [s \in AllSensors |-> 0]
    /\ resets = [s \in AllSensors |-> 0]
    /\ exp = [s \in AllSensors |-> new_exp]
    /\ attempts = [s \in AllSensors |-> 0]
    /\ has_come_up = [s \in AllSensors |-> FALSE]
    /\ bus = [holder |-> NoTask, waiters |-> <<>>]
    /\ mainState = "joining"
    /\ faults = {}
    /\ trail = [s \in AllSensors |-> "fresh"]
    /\ failedCalls = [s \in AllSensors |-> 0]
    /\ calls = [s \in AllSensors |-> [last |-> "none", okInits |-> 0, err |-> "-"]]

\* ExpBackoff::new(initial).with_max(max): any initial and max backoff.
BackoffInit ==
    /\ cfg \in [initial_ms : 0..MaxInitialMs, max_ms : 0..MaxMaxMs,
                max_init_attempts : {{}}]
    /\ bk = [exp |-> new_exp, ops |-> <<"new">>, delay |-> -1, prev |-> -1,
             cur |-> -1, waits |-> 0, pre |-> -1]
    /\ IdleSup
    /\ AdaptersIdle

\* A call of wait: sleeps for initial_ms * exp, bumps exp while below max.
BkWait ==
    /\ bk.waits < MaxWaits
    /\ bk' = [bk EXCEPT
                !.exp = wait_exp(cfg.initial_ms, cfg.max_ms, bk.exp),
                !.delay = wait_delay(cfg.initial_ms, bk.exp),
                !.prev = IF bk.waits > 0 THEN bk.delay ELSE -1,
                !.ops = <<bk.ops[Len(bk.ops)], "wait">>,
                !.waits = bk.waits + 1]
    /\ UNCHANGED <<cfg, supVars>>

\* A call of reset.
BkReset ==
    /\ bk' = [bk EXCEPT !.exp = reset_exp,
                        !.pre = bk.exp,
                        !.ops = <<bk.ops[Len(bk.ops)], "reset">>,
                        !.waits = 0]
    /\ UNCHANGED <<cfg, supVars>>

\* A call of current: returns initial_ms * exp and changes nothing else.
BkCurrent ==
    /\ bk' = [bk EXCEPT !.cur = current_ms(cfg.initial_ms, bk.exp),
                        !.ops = <<bk.ops[Len(bk.ops)], "current">>]
    /\ UNCHANGED <<cfg, supVars>>

BackoffNext == BkWait \/ BkReset \/ BkCurrent

SpecBackoff == BackoffInit /\ [][BackoffNext]_vars

LastOp == bk.ops[Len(bk.ops)]

\* C2: the delay that wait sleeps for and the value current() returns never
\* exceed max_backoff, for every initial and max backoff and every sequence
\* of wait and reset calls.  Stated here for the configurations whose
\* initial backoff is positive and at most the max backoff: the claim
\* covers them, and the cap could be met exactly in each of them.
C2_DelayWithinMax ==
    (0 < cfg.initial_ms /\ cfg.initial_ms <= cfg.max_ms) =>
        /\ bk.delay <= cfg.max_ms
        /\ bk.cur <= cfg.max_ms

\* C3: in a run of waits with no reset in between, each delay slept is at
\* least the previous one, and after max_ms + 1 waits at the latest the
\* delay has stopped growing: the next wait would sleep for the same time.
C3_DelaysNonDecreasingAndSaturate ==
    /\ (LastOp = "wait" /\ bk.prev # -1) => bk.delay >= bk.prev
    /\ (LastOp = "wait" /\ bk.waits >= cfg.max_ms + 1)
          => wait_delay(cfg.initial_ms, bk.exp) = bk.delay

\* C3 witness: a run of waits whose delay grew above the initial backoff and
\* then stopped at or above the cap.
C3_Witness ==
    /\ bk.ops = <<"wait", "wait">>
    /\ cfg.initial_ms > 0
    /\ bk.waits >= cfg.max_ms + 1
    /\ bk.delay > cfg.initial_ms
    /\ bk.delay = bk.prev

\* C4: right after reset(), current() returns the initial backoff and the
\* next wait sleeps for exactly the initial backoff, whatever the counter
\* was before the reset.
C4_ResetYieldsInitial ==
    /\ bk.ops = <<"reset", "current">> => bk.cur = cfg.initial_ms
    /\ bk.ops = <<"reset", "wait">> => bk.delay = cfg.initial_ms

\* C4 witness: a reset of a counter that had grown past 1, then a wait.
C4_Witness ==
    /\ bk.ops = <<"reset", "wait">>
    /\ bk.pre > 1
    /\ cfg.initial_ms > 0
    /\ bk.delay = cfg.initial_ms

(***************************************************************************)
(* SensorError (error.rs), SharedBus (lib.rs), run_sensor (sensor.rs) and  *)
(* the daemon's join loop (eclssd main.rs).                                *)
(***************************************************************************)
\* What an adapter call can return as Err: the I2C kind behind the error
\* (None when the error is no I2C error) and whether it is should-reset.
I2cKinds == {None, "NoAcknowledge", "Bus", "Other"}
Errors == [i2c : I2cKinds, reset : BOOLEAN]
ErrorStatuses == {"SensorError", "NoAcknowledge", "BusError", "OtherI2cError"}

\* A wrapper that does not forward the I2C kind of the error it wraps.
i2c_error_bad(e) == None

\* EclssError::i2c_error: an adapter returns its error wrapped in an
\* EclssError, with a context message or without, and the wrapper forwards
\* the I2C kind of the error it wraps.
i2c_error(e) == e.i2c

\* SensorError::as_status.
as_status(e) ==
    CASE i2c_error(e) = None -> "SensorError"
      [] i2c_error(e) = "NoAcknowledge" -> "NoAcknowledge"
      [] i2c_error(e) = "Bus" -> "BusError"
      [] OTHER -> "OtherI2cError"

\* Giving up leaves the status as the init attempt set it.
init_err_status_bad(old, e, last) == IF last THEN old ELSE as_status(e)

\* run_sensor on Err from init: `self.status.set_status(error.as_status())`,
\* on the last attempt as on every other.
init_err_status(old, e, last) == as_status(e)

\* SensorError::should_reset.
should_reset(e) == e.reset

\* `Some(attempts) == config.max_init_attempts`.
\* An Option<usize> is the empty set (None) or a singleton (Some(n)).
gives_up_bad(n, max_init_attempts) ==
    IF max_init_attempts = {} THEN n = 1 ELSE max_init_attempts = {n}
\* An unset limit read as a limit of two attempts.
gives_up_default(n, max_init_attempts) ==
    IF max_init_attempts = {} THEN n = 2 ELSE max_init_attempts = {n}
gives_up(n, max_init_attempts) == max_init_attempts = {n}

\* The status written at the head of each init attempt:
\* set_status(Status::Initializing).
init_begin_status_bad(old) == IF old = "Unknown" THEN "Initializing" ELSE old
\* An init attempt that leaves an error status standing.
init_begin_status_keep(old) == IF old \in ErrorStatuses THEN old ELSE "Initializing"
init_begin_status(old) == "Initializing"

\* The status written when poll returns Err(e): set_status(error.as_status()).
poll_fail_status_bad(old, e) == IF should_reset(e) THEN old ELSE as_status(e)
poll_fail_status(old, e) == as_status(e)

\* errors.fetch_add(1) when poll returns Err(e).
poll_fail_errors_bad(n, e) == IF should_reset(e) THEN n ELSE n + 1
poll_fail_errors(n, e) == n + 1

\* The mutex of SharedBus: lock() resolves for the first waiter once the
\* guard of the previous transaction is dropped.
lock_resolves_bad(b, s) == b.waiters # <<>> /\ Head(b.waiters) = s
lock_resolves(b, s) ==
    b.holder = NoTask /\ b.waiters # <<>> /\ Head(b.waiters) = s

\* Eclss::<_, 16>::new in main.
REGISTRY_SENSORS == 16

InTxn(s) == pc[s] \in {"init_txn", "poll_txn"}
Stopped(s) == pc[s] \in {"disabled", "failed_register", "gave_up", "aborted"}
Running(s) == s \in sensors /\ ~Stopped(s) /\ mainState = "joining"

\* Dropping a task's future: its place in the wait queue and its guard go.
WithoutTask(b, s) ==
    [holder |-> IF b.holder = s THEN NoTask ELSE b.holder,
     waiters |-> SelectSeq(b.waiters, LAMBDA w : w # s)]

\* The daemon: main spawns one run_sensor task per enabled sensor.
SupInit(enabled, caps, configs, faultSets) ==
    /\ cfg \in configs
    /\ bk = [exp |-> new_exp, ops |-> <<"new">>, delay |-> -1, prev |-> -1,
             cur |-> -1, waits |-> 0, pre |-> -1]
    /\ sensors \in enabled
    /\ capacity \in caps
    /\ registry = {}
    /\ pc = [s \in AllSensors |-> IF s \in sensors THEN "start" ELSE "disabled"]
    /\ status = [s \in AllSensors |-> "Unknown"]
    /\ errors = [s \in AllSensors |-> 0]
    /\ resets = [s \in AllSensors |-> 0]
    /\ exp = [s \in AllSensors |-> new_exp]
    /\ attempts = [s \in AllSensors |-> 0]
    /\ has_come_up = [s \in AllSensors |-> FALSE]
    /\ bus = [holder |-> NoTask, waiters |-> <<>>]
    /\ mainState = "joining"
    /\ faults \in faultSets
    /\ trail = [s \in AllSensors |-> "fresh"]
    /\ failedCalls = [s \in AllSensors |-> 0]
    /\ calls = [s \in AllSensors |-> [last |-> "none", okInits |-> 0, err |-> "-"]]

\* run_sensor, entry: get_or_register and the two counter registrations.
\* Each fails when its map is full; then run_sensor returns Err at once.
Register(s) ==
    /\ Running(s) /\ pc[s] = "start"
    /\ IF s \in registry \/ Cardinality(registry) < capacity
         THEN /\ registry' = registry \cup {s}
              /\ pc' = [pc EXCEPT ![s] = "init_ready"]
         ELSE /\ pc' = [pc EXCEPT ![s] = "failed_register"]
              /\ UNCHANGED registry
    /\ attempts' = [attempts EXCEPT ![s] = 0]
    /\ UNCHANGED <<cfg, bk, sensors, capacity, status, errors, resets, exp,
                   has_come_up, bus, mainState, faults, trail, failedCalls, calls, sgp, scd, libVars>>

\* The head of `while let Err(error) = { set_status(Initializing); init() }`,
\* on entry to 'initialize and after each backoff sleep: init's first
\* transaction asks for the bus.
InitBegin(s) ==
    /\ Running(s) /\ pc[s] \in {"init_ready", "init_backoff"}
    /\ status' = [status EXCEPT ![s] = init_begin_status(@)]
    /\ pc' = [pc EXCEPT ![s] = "init_lock"]
    /\ bus' = [bus EXCEPT !.waiters = Append(bus.waiters, s)]
    /\ trail' = [trail EXCEPT ![s] = IF @ = "reset" THEN "reinit" ELSE @]
    /\ UNCHANGED <<cfg, bk, sensors, capacity, registry, errors, resets, exp,
                   attempts, has_come_up, mainState, faults, failedCalls, calls, sgp, scd, libVars>>

\* SharedBus::transaction: `self.0.lock().await` resolves.
BusGrant(s) ==
    /\ Running(s) /\ pc[s] \in {"init_lock", "poll_lock"}
    /\ lock_resolves(bus, s)
    /\ bus' = [holder |-> s, waiters |-> SelectSeq(bus.waiters, LAMBDA w : w # s)]
    /\ pc' = [pc EXCEPT ![s] = IF pc[s] = "init_lock" THEN "init_txn" ELSE "poll_txn"]
    /\ UNCHANGED <<cfg, bk, sensors, capacity, registry, status, errors, resets,
                   exp, attempts, has_come_up, mainState, faults, trail, failedCalls, calls, sgp, scd, libVars>>

\* A transaction returns Ok, its guard is dropped, and the adapter call goes
\* on to a further transaction.
OnAdapterContinue(s) ==
    /\ Running(s) /\ InTxn(s)
    /\ bus' = [holder |-> IF bus.holder = s THEN NoTask ELSE bus.holder,
               waiters |-> Append(bus.waiters, s)]
    /\ pc' = [pc EXCEPT ![s] = IF pc[s] = "init_txn" THEN "init_lock" ELSE "poll_lock"]
    /\ UNCHANGED <<cfg, bk, sensors, capacity, registry, status, errors, resets,
                   exp, attempts, has_come_up, mainState, faults, trail, failedCalls, calls>>

AdapterContinue(s) == OnAdapterContinue(s) /\ UNCHANGED <<sgp, scd, libVars>>

\* The status after init returned Ok: nothing is written to it before the
\* first poll returns.
init_ok_status_bad(old) == "Up"
init_ok_status(old) == old

\* `if has_come_up { resets.fetch_add(1) }` after init returned Ok.
init_ok_resets_bad(n, came_up) == n + 1
init_ok_resets(n, came_up) == IF came_up THEN n + 1 ELSE n

\* init returns Ok: backoff.reset(), the reset counter on a re-init, then
\* the poll loop's first delay.
OnInitOk(s) ==
    /\ Running(s) /\ pc[s] = "init_txn"
    /\ bus' = WithoutTask(bus, s)
    /\ exp' = [exp EXCEPT ![s] = reset_exp]
    /\ status' = [status EXCEPT ![s] = init_ok_status(@)]
    /\ resets' = [resets EXCEPT ![s] = init_ok_resets(@, has_come_up[s])]
    /\ has_come_up' = [has_come_up EXCEPT ![s] = TRUE]
    /\ pc' = [pc EXCEPT ![s] = "poll_sleep"]
    /\ calls' = [calls EXCEPT ![s] = [last |-> "init_ok",
                                      okInits |-> @.okInits + 1,
                                      err |-> "-"]]
    /\ UNCHANGED <<cfg, bk, sensors, capacity, registry, errors,
                   attempts, mainState, faults, trail, failedCalls>>

\* init returns Err(e): status, error counter, attempts; give up when
\* attempts equals max_init_attempts, else backoff.wait.
OnInitErr(s, e) ==
    /\ Running(s) /\ pc[s] = "init_txn"
    /\ failedCalls[s] < MaxErrors
    /\ bus' = WithoutTask(bus, s)
    /\ status' = [status EXCEPT ![s] =
                    init_err_status(@, e, gives_up(attempts[s] + 1,
                                                   cfg.max_init_attempts))]
    /\ errors' = [errors EXCEPT ![s] = @ + 1]
    /\ failedCalls' = [failedCalls EXCEPT ![s] = @ + 1]
    /\ attempts' = [attempts EXCEPT ![s] = @ + 1]
    /\ IF gives_up(attempts[s] + 1, cfg.max_init_attempts)
         THEN /\ pc' = [pc EXCEPT ![s] = "gave_up"]
              /\ UNCHANGED exp
         ELSE /\ pc' = [pc EXCEPT ![s] = "init_backoff"]
              /\ exp' = [exp EXCEPT ![s] = wait_exp(cfg.initial_ms, cfg.max_ms, @)]
    /\ calls' = [calls EXCEPT ![s].last = "init_err", ![s].err = e.i2c]
    /\ UNCHANGED <<cfg, bk, sensors, capacity, registry, resets, has_come_up,
                   mainState, faults, trail>>

\* The poll-interval delay or a backoff sleep ends and poll is called: its
\* first transaction asks for the bus.
PollBegin(s) ==
    /\ Running(s) /\ pc[s] \in {"poll_sleep", "poll_backoff"}
    /\ pc' = [pc EXCEPT ![s] = "poll_lock"]
    /\ bus' = [bus EXCEPT !.waiters = Append(bus.waiters, s)]
    /\ UNCHANGED <<cfg, bk, sensors, capacity, registry, status, errors, resets,
                   exp, attempts, has_come_up, mainState, faults, trail, failedCalls, calls, sgp, scd, libVars>>

\* The backoff counter after poll returned Ok: the poll loop does not
\* touch the backoff on success.
poll_ok_exp_bad(e) == reset_exp
poll_ok_exp(e) == e

\* poll returns Ok: set_status(Up), then the next poll-interval delay.
OnPollOk(s) ==
    /\ Running(s) /\ pc[s] = "poll_txn"
    /\ bus' = WithoutTask(bus, s)
    /\ status' = [status EXCEPT ![s] = "Up"]
    /\ exp' = [exp EXCEPT ![s] = poll_ok_exp(@)]
    /\ trail' = [trail EXCEPT ![s] = "up"]
    /\ pc' = [pc EXCEPT ![s] = "poll_sleep"]
    /\ calls' = [calls EXCEPT ![s].last = "poll_ok", ![s].err = "-"]
    /\ UNCHANGED <<cfg, bk, sensors, capacity, registry, errors, resets,
                   attempts, has_come_up, mainState, faults, failedCalls>>

\* Where the poll loop goes when poll returned Err(e):
\* `if error.should_reset() { continue 'initialize } else { backoff.wait() }`.
poll_fail_next_reinit(e) == "init_ready"
poll_fail_next_backoff(e) == "poll_backoff"
poll_fail_next(e) == IF should_reset(e) THEN "init_ready" ELSE "poll_backoff"

\* poll returns Err(e): status and error counter; a should-reset error
\* continues 'initialize (attempts = 0), any other one waits the backoff.
OnPollErr(s, e) ==
    /\ Running(s) /\ pc[s] = "poll_txn"
    /\ failedCalls[s] < MaxErrors
    /\ bus' = WithoutTask(bus, s)
    /\ status' = [status EXCEPT ![s] = poll_fail_status(@, e)]
    /\ errors' = [errors EXCEPT ![s] = poll_fail_errors(@, e)]
    /\ failedCalls' = [failedCalls EXCEPT ![s] = @ + 1]
    /\ pc' = [pc EXCEPT ![s] = poll_fail_next(e)]
    /\ IF should_reset(e)
         THEN /\ attempts' = [attempts EXCEPT ![s] = 0]
              /\ trail' = [trail EXCEPT ![s] = IF @ = "up" THEN "reset" ELSE @]
              /\ calls' = [calls EXCEPT ![s].last = "poll_reset", ![s].err = e.i2c]
              /\ UNCHANGED exp
         ELSE /\ exp' = [exp EXCEPT ![s] = wait_exp(cfg.initial_ms, cfg.max_ms, @)]
              /\ calls' = [calls EXCEPT ![s].last = "poll_err", ![s].err = e.i2c]
              /\ UNCHANGED <<attempts, trail>>
    /\ UNCHANGED <<cfg, bk, sensors, capacity, registry, resets, has_come_up,
                   mainState, faults>>

\* The four returns of an adapter call, for an adapter of which only the
\* result of each call is modelled: any error the devices of the run can make
\* it return.
InitOk(s) == OnInitOk(s) /\ UNCHANGED <<sgp, scd, libVars>>
InitFail(s, e) == e \in faults /\ OnInitErr(s, e) /\ UNCHANGED <<sgp, scd, libVars>>
PollOk(s) == OnPollOk(s) /\ UNCHANGED <<sgp, scd, libVars>>
PollFail(s, e) == e \in faults /\ OnPollErr(s, e) /\ UNCHANGED <<sgp, scd, libVars>>

MainJoin_bad ==
    /\ mainState = "joining"
    /\ \E s \in sensors : pc[s] \in {"failed_register", "gave_up"}
    /\ mainState' = "exited"
    /\ UNCHANGED <<cfg, bk, sensors, capacity, registry, pc, status, errors,
                   resets, exp, attempts, has_come_up, bus, faults, trail,
                   failedCalls, calls, sgp, scd, libVars>>

\* main's `while let Some(join) = sensor_tasks.join_next().await { join??; }`:
\* a finished task's Err leaves main, the JoinSet is dropped and every task
\* still in it is aborted.
MainJoin ==
    /\ mainState = "joining"
    /\ \E s \in sensors : pc[s] \in {"failed_register", "gave_up"}
    /\ mainState' = "exited"
    /\ pc' = [s \in AllSensors |-> IF Stopped(s) THEN pc[s] ELSE "aborted"]
    /\ bus' = [holder |-> NoTask, waiters |-> <<>>]
    /\ UNCHANGED <<cfg, bk, sensors, capacity, registry, status, errors, resets,
                   exp, attempts, has_come_up, faults, trail, failedCalls, calls, sgp, scd, libVars>>

Next ==
    \/ \E s \in AllSensors : Register(s)
    \/ \E s \in AllSensors : InitBegin(s)
    \/ \E s \in AllSensors : BusGrant(s)
    \/ \E s \in AllSensors : AdapterContinue(s)
    \/ \E s \in AllSensors : InitOk(s)
    \/ \E s \in AllSensors, e \in Errors : InitFail(s, e)
    \/ \E s \in AllSensors : PollBegin(s)
    \/ \E s \in AllSensors : PollOk(s)
    \/ \E s \in AllSensors, e \in Errors : PollFail(s, e)
    \/ MainJoin

\* One supervisor on its own: every error an adapter can return, every
\* max_init_attempts up to the bound, backoffs that do and do not hit the cap.
Init ==
    /\ SupInit({{"SGP30"}}, {REGISTRY_SENSORS},
               [initial_ms : {1, 2}, max_ms : {2, 3},
                max_init_attempts : {{}} \cup {{n} : n \in 0..MaxInitAttempts}],
               {Errors})
    /\ AdaptersIdle

Spec == Init /\ [][Next]_vars

\* The daemon with two sensors on the shared bus; the registry holds one
\* sensor or all of them, and devices fail with NoAcknowledge or with a
\* should-reset sensor error.
DaemonInit ==
    /\ SupInit({DaemonSensors}, {1, REGISTRY_SENSORS},
               [initial_ms : {1}, max_ms : {2}, max_init_attempts : {{}, {1}}],
               {{[i2c |-> "NoAcknowledge", reset |-> FALSE],
                 [i2c |-> None, reset |-> TRUE]}})
    /\ AdaptersIdle

SpecDaemon == DaemonInit /\ [][Next]_vars

(***************************************************************************)
(* Properties of the supervisor, the bus and the daemon.                   *)
(***************************************************************************)
\* C1: at most one transaction on the I2C controller is in progress at any
\* instant, and the task whose transaction it is holds the bus mutex.
C1_BusExclusion ==
    /\ Cardinality({s \in AllSensors : InTxn(s)}) <= 1
    /\ \A s \in AllSensors : InTxn(s) => bus.holder = s

\* C1 witness: one task is inside a transaction while the other one waits
\* for the mutex.
C1_Witness ==
    \E s, t \in AllSensors :
        /\ s # t
        /\ InTxn(s)
        /\ pc[t] \in {"init_lock", "poll_lock"}
        /\ bus.waiters = <<t>>

\* C5: with max_init_attempts = Some(n), a supervisor makes at most n failing
\* init calls in one INIT phase and has returned right after the n-th, for
\* every n >= 0.
C5_AtMostNFailingInits ==
    \A s \in sensors : \A n \in cfg.max_init_attempts :
        /\ attempts[s] <= n
        /\ (n >= 1 /\ attempts[s] = n) => Stopped(s)

\* C6: with max_init_attempts not configured, a supervisor whose
\* registrations succeeded never returns, and a supervisor that returned
\* after registering did so from init exhaustion, at exactly the configured
\* number of attempts.
C6_NeverReturnsWithoutLimit ==
    \A s \in registry :
        /\ cfg.max_init_attempts = {} => pc[s] \notin {"gave_up", "failed_register"}
        /\ pc[s] # "failed_register"
        /\ pc[s] = "gave_up" => cfg.max_init_attempts = {attempts[s]}

\* C6 witness: no limit configured, and a supervisor that went through a
\* should-reset failure, two failed inits of the re-init and is Up again.
C6_Witness ==
    \E s \in sensors :
        /\ cfg.max_init_attempts = {}
        /\ attempts[s] >= 2
        /\ resets[s] >= 1
        /\ status[s] = "Up"

\* C7 as claimed: when a sensor's task has ended with init exhaustion, the
\* tasks of the other enabled sensors keep running: none of them is aborted.
C7_OthersKeepRunning ==
    \A s, t \in sensors :
        (s # t /\ pc[s] = "gave_up") => pc[t] # "aborted"

\* C7 as amended: the other tasks run on only until main's join loop
\* receives the error of the finished task; main then returns it, and every
\* other sensor task is aborted: no status or counter changes afterwards.
C7_DaemonExitsOnGiveUp ==
    /\ [](/\ mainState = "joining" => \A s \in sensors : pc[s] # "aborted"
          /\ mainState = "exited" =>
                /\ \A s \in sensors : Stopped(s)
                /\ \E s \in sensors : pc[s] \in {"gave_up", "failed_register"}
                /\ bus.holder = NoTask)
    /\ [][mainState = "exited" => UNCHANGED <<pc, status, errors, resets>>]_vars

\* C7 witness: one sensor gave up, main left, and a sensor that was Up is
\* aborted.
C7_Witness ==
    \E s, t \in sensors :
        /\ mainState = "exited"
        /\ pc[s] = "gave_up"
        /\ pc[t] = "aborted"
        /\ status[t] = "Up"

\* C8: the status never goes from Up to Initializing in one write, and when
\* Initializing is written after the sensor was Up, a should-reset poll
\* failure has written an error status in between.
C8_NoUpToInitializing ==
    [][\A s \in AllSensors :
          /\ status[s] = "Up" => status'[s] # "Initializing"
          /\ (pc[s] \in {"init_ready", "init_backoff"} /\ pc'[s] = "init_lock")
                => (trail[s] # "up" /\ status[s] # "Up")]_vars

\* C8 witness: Initializing written after the sensor was Up.
C8_Witness ==
    \E s \in sensors : trail[s] = "reinit" /\ status[s] = "Initializing"

\* C9 as claimed: Initializing is written once, at the start of an
\* INIT->RUNNING cycle (the entry to 'initialize), and not again after a
\* failure of that cycle.
C9_InitializingWrittenOnce ==
    [][\A s \in AllSensors :
          (status'[s] = "Initializing" /\ status[s] # "Initializing")
              => pc[s] = "init_ready"]_vars

\* C9 as amended: Initializing is written before every init call of the
\* cycle, at its start and again after the backoff of each failed init, so
\* the status is Initializing throughout every init call and an error kind
\* throughout every init backoff; Up is written only when a poll returns.
C9_InitializingBeforeEveryInit ==
    /\ [](\A s \in sensors :
            /\ pc[s] \in {"init_lock", "init_txn"} => status[s] = "Initializing"
            /\ pc[s] = "init_backoff" => status[s] \in ErrorStatuses)
    /\ [][\A s \in AllSensors :
            /\ (status'[s] = "Initializing" /\ status[s] # "Initializing")
                  => /\ pc[s] \in {"init_ready", "init_backoff"}
                     /\ status[s] \in ErrorStatuses \cup {"Unknown"}
            /\ (status'[s] = "Up" /\ status[s] # "Up")
                  => /\ pc[s] = "poll_txn"
                     /\ status[s] \in ErrorStatuses \cup {"Initializing"}]_vars

\* C9 witness: a cycle whose init failed twice, so that Initializing was
\* written three times, and which then reached Up.
C9_Witness ==
    \E s \in sensors : attempts[s] >= 2 /\ status[s] = "Up"

\* C10: a sensor's error counter equals the number of init calls plus the
\* number of poll calls that returned an error, should-reset ones included.
C10_ErrorsCountFailures ==
    \A s \in AllSensors : errors[s] = failedCalls[s]

\* C10 witness: a should-reset poll failure, a failed init and a transient
\* poll failure have all been counted.
C10_Witness ==
    \E s \in sensors :
        /\ errors[s] >= 3
        /\ resets[s] >= 1
        /\ attempts[s] >= 1
        /\ pc[s] = "poll_backoff"

\* C11: a sensor's reset counter is 0 until its first init call has
\* returned Ok, and from then on it is the number of init calls that
\* returned Ok minus one.
C11_ResetsCountReinits ==
    \A s \in AllSensors :
        resets[s] = IF calls[s].okInits = 0 THEN 0 ELSE calls[s].okInits - 1

\* C11 witness: a sensor whose init succeeded three times, with a failed
\* init in the INIT phase it is past.
C11_Witness ==
    \E s \in sensors :
        /\ calls[s].okInits = 3
        /\ resets[s] = 2
        /\ attempts[s] >= 1
        /\ pc[s] = "poll_sleep"

InInitCall(s) == pc[s] \in {"init_lock", "init_txn"}
InRunningPhase(s) == pc[s] \in {"poll_sleep", "poll_lock", "poll_txn", "poll_backoff"}

\* C12: when poll fails with an error that is not should-reset, the
\* supervisor waits the backoff once (one application of wait to the
\* counter) and then calls poll again; it calls no init in response, and it
\* stays in this retry loop until a poll succeeds or fails with a
\* should-reset error.
C12_TransientPollFailureRetriesPoll ==
    /\ [](\A s \in sensors :
            calls[s].last = "poll_err"
                => pc[s] \in {"poll_backoff", "poll_lock", "poll_txn", "aborted"})
    /\ [][\A s \in sensors :
            /\ (failedCalls'[s] # failedCalls[s] /\ calls'[s].last = "poll_err")
                  => /\ pc[s] = "poll_txn" /\ pc'[s] = "poll_backoff"
                     /\ exp'[s] = wait_exp(cfg.initial_ms, cfg.max_ms, exp[s])
            /\ (pc[s] = "poll_backoff" /\ pc'[s] # pc[s])
                  => /\ pc'[s] \in {"poll_lock", "aborted"}
                     /\ exp'[s] = exp[s]
                     /\ status'[s] = status[s]
            /\ (calls[s].last = "poll_err" /\ calls'[s].last # "poll_err")
                  => /\ pc[s] = "poll_txn"
                     /\ calls'[s].last \in {"poll_ok", "poll_reset"}]_vars

\* C12 witness: a poll is in progress again after two transient poll
\* failures in a row, with no init call since the sensor came up.
C12_Witness ==
    \E s \in sensors :
        /\ calls[s].last = "poll_err"
        /\ pc[s] = "poll_txn"
        /\ failedCalls[s] = 2
        /\ calls[s].okInits = 1
        /\ attempts[s] = 0

\* C13: when poll fails with a should-reset error, the next adapter call
\* of the sensor is init, made after Initializing was written to the status
\* cell, with no backoff wait and no further poll in between.
C13_ShouldResetGoesToInit ==
    /\ [](\A s \in sensors :
            calls[s].last = "poll_reset"
                => /\ pc[s] \in {"init_ready", "init_lock", "init_txn", "aborted"}
                   /\ InInitCall(s) => status[s] = "Initializing")
    /\ [][\A s \in sensors :
            /\ (failedCalls'[s] # failedCalls[s] /\ calls'[s].last = "poll_reset")
                  => /\ pc[s] = "poll_txn" /\ pc'[s] = "init_ready"
                     /\ exp'[s] = exp[s]
            /\ (calls[s].last = "poll_reset" /\ pc'[s] # "aborted")
                  => /\ exp'[s] = exp[s] \/ calls'[s].last \in {"init_ok", "init_err"}
                     /\ calls'[s].last \in {"poll_reset", "init_ok", "init_err"}]_vars

\* C13 witness: init is in progress, with status Initializing, right after
\* a should-reset failure of a sensor that was Up.
C13_Witness ==
    \E s \in sensors :
        /\ calls[s].last = "poll_reset"
        /\ pc[s] = "init_txn"
        /\ trail[s] = "reinit"
        /\ status[s] = "Initializing"

\* C14: a sensor's backoff counter is reset only when an init call returns
\* Ok; a poll that returns Ok leaves it unchanged, also after failed polls,
\* so within one RUNNING phase the delay that a poll failure waits never
\* goes below the delay of an earlier poll failure of that phase.
C14_BackoffResetOnlyOnInitOk ==
    [][\A s \in sensors :
          /\ exp'[s] # exp[s]
                => \/ /\ pc[s] = "init_txn" /\ calls'[s].last = "init_ok"
                      /\ exp'[s] = reset_exp
                   \/ /\ failedCalls'[s] # failedCalls[s]
                      /\ exp'[s] = wait_exp(cfg.initial_ms, cfg.max_ms, exp[s])
                      /\ exp'[s] > exp[s]
          /\ (pc[s] = "poll_txn" /\ calls'[s].last = "poll_ok")
                => exp'[s] = exp[s]
          /\ (InRunningPhase(s) /\ InRunningPhase(s)')
                => wait_delay(cfg.initial_ms, exp'[s])
                      >= wait_delay(cfg.initial_ms, exp[s])]_vars

\* C14 witness: a poll failed and waited a delay above the initial backoff
\* in a RUNNING phase in which a poll had succeeded after a failed poll.
C14_Witness ==
    \E s \in sensors :
        /\ pc[s] = "poll_backoff"
        /\ trail[s] = "up"
        /\ failedCalls[s] = 2
        /\ calls[s].okInits = 1
        /\ attempts[s] = 0
        /\ exp[s] = 3

\* C15: a sensor's status is Up exactly when the last adapter call that
\* returned is a poll that returned Ok (a new INIT phase is entered only by
\* a later, failed poll); after an init that returned Ok the status is
\* still Initializing until the first poll returns.
C15_UpIffLastCallPollOk ==
    \A s \in sensors :
        /\ status[s] = "Up" <=> calls[s].last = "poll_ok"
        /\ calls[s].last = "init_ok" => status[s] = "Initializing"

\* C15 witness: the re-init of a sensor that had been Up returned Ok and the
\* status is Initializing while the next poll is in progress.
C15_Witness ==
    \E s \in sensors :
        /\ calls[s].last = "init_ok"
        /\ trail[s] = "reinit"
        /\ pc[s] = "poll_txn"
        /\ status[s] = "Initializing"

(***************************************************************************)
(* The pressure compensation of the SCD41 adapter (sensor/scd.rs,          *)
(* sensor/scd/scd41.rs).  Pressures are integers in tenths of a pascal, so *)
(* that `pressure_hpa * 100.0` is the value divided by ten; the product is *)
(* taken exactly, without the rounding error of the f64 multiplication.    *)
(***************************************************************************)
PressureSpread == 3

\* The means the pressure_hpa family can have: below zero, zero, ordinary
\* ones, and the ones within PressureSpread half pascals of each end of
\* the valid range.
PressureMeans ==
    {-15, 0, 1013250, 1013255}
        \cup {700000 + 5 * k : k \in -PressureSpread..PressureSpread}
        \cup {1200000 + 5 * k : k \in -PressureSpread..PressureSpread}

\* `(pressure_hpa * 100.0) as u32`: the cast drops the fraction and turns a
\* negative value into 0.
as_u32_rounding(tenths) == IF tenths < 0 THEN 0 ELSE (tenths + 5) \div 10
as_u32(tenths) == IF tenths < 0 THEN 0 ELSE tenths \div 10

\* const VALID_PRESSURES: Range<u32> = 70_000..120_000 (the end excluded).
VALID_PRESSURES == 70000..119999

\* Shared::pressure_pascals: None without a mean, and None for a pressure
\* that is not in VALID_PRESSURES.
pressure_pascals_unchecked(mean) == {as_u32(m) : m \in mean}
pressure_pascals(mean) ==
    {as_u32(m) : m \in {x \in mean : as_u32(x) \in VALID_PRESSURES}}

\* A sensor that measures pressure writes its gauge: the mean changes.
Scd41RecordPressure(m) ==
    /\ scd' = [scd EXCEPT !.mean = {m}]
    /\ UNCHANGED <<cfg, bk, sensors, capacity, registry, pc, status, errors,
                   resets, exp, attempts, has_come_up, bus, mainState, faults,
                   trail, failedCalls, calls, sgp, libVars>>

\* Scd41::poll, once the measurement is read:
\* `if let Some(pressure) = self.state.pressure_pascals()
\*      { self.sensor.set_ambient_pressure(pressure) }`.
Scd41Poll ==
    /\ scd' = [scd EXCEPT !.polled = TRUE,
                          !.seen = scd.mean,
                          !.sent = pressure_pascals(scd.mean)]
    /\ UNCHANGED <<cfg, bk, sensors, capacity, registry, pc, status, errors,
                   resets, exp, attempts, has_come_up, bus, mainState, faults,
                   trail, failedCalls, calls, sgp, libVars>>

Scd41Init ==
    /\ cfg = [initial_ms |-> 1, max_ms |-> 2, max_init_attempts |-> {}]
    /\ bk = [exp |-> new_exp, ops |-> <<"new">>, delay |-> -1, prev |-> -1,
             cur |-> -1, waits |-> 0, pre |-> -1]
    /\ IdleSup
    /\ sgp = Sgp30New({})
    /\ scd = Scd41New
    /\ LibIdle

Scd41Next ==
    \/ \E m \in PressureMeans : Scd41RecordPressure(m)
    \/ Scd41Poll

SpecScd41 == Scd41Init /\ [][Scd41Next]_vars

\* C17: every pressure the SCD41 adapter passes to set_ambient_pressure is
\* within 70000..120000 Pa, whatever the mean of the pressure family, and a
\* poll that finds no pressure recorded passes none.
C17_ForwardedPressureInRange ==
    /\ \A p \in scd.sent : 70000 <= p /\ p <= 120000
    /\ (scd.polled /\ scd.seen = {}) => scd.sent = {}

\* C17 witness: a poll passed the highest pressure of the range it accepts,
\* for a mean just below 1200 hPa.
C17_Witness ==
    /\ scd.polled
    /\ scd.seen = {1199995}
    /\ scd.sent = {119999}

\* C18 as claimed: the pressure applied is the mean times 100, rounded to
\* the nearest pascal and clamped to 70000..120000: a mean below 700 hPa
\* applies 70000, a mean of 1200 hPa or above applies 120000.
C18_RoundedAndClamped ==
    (scd.polled /\ scd.seen # {}) =>
        \A m \in scd.seen :
            LET rounded == (m + 5) \div 10
                clamped == IF rounded < 70000 THEN 70000
                           ELSE IF rounded > 120000 THEN 120000 ELSE rounded
            IN  scd.sent = {clamped}

\* C18 as amended: the pressure applied is the mean times 100 with the
\* fraction dropped, when that is at least 70000 and below 120000 Pa; for
\* any other mean, 1200 hPa included, the poll applies no pressure.
C18_TruncatedOrNotApplied ==
    scd.polled =>
        \A m \in scd.seen :
            IF 700000 <= m /\ m < 1200000
              THEN \E p \in scd.sent :
                      /\ scd.sent = {p}
                      /\ 10 * p <= m /\ m < 10 * p + 10
              ELSE scd.sent = {}

\* C18 witness: a poll that saw a mean of exactly 1200 hPa applied nothing.
C18_Witness ==
    /\ scd.polled
    /\ scd.seen = {1200000}
    /\ scd.sent = {}

(***************************************************************************)
(* The SGP30 adapter (sensor/sgp30.rs) under its supervisor: calibration,  *)
(* saturated readings, and the baseline kept in a Store (storage.rs).      *)
(***************************************************************************)
MAX_TVOC == 60000
CALIBRATION_POLLS == 15
MaxBaseline == 2

Baselines == 1..MaxBaseline
TvocReadings == {400, MAX_TVOC}
SGP30 == "SGP30"

\* Sgp30Error: an I2C error of the driver (named by its kind),
\* SelfTestFailed or Saturated.  SensorError::i2c_error for it.
Sgp30Error_i2c_error(k) ==
    IF k \in {"Saturated", "SelfTestFailed"} THEN None ELSE k

\* SensorError::should_reset for Sgp30Error: matches!(self, Self::Saturated).
Sgp30Error_should_reset(k) == k = "Saturated"

\* SensorError::should_reset for the EclssError that carries the adapter's
\* error to run_sensor: it is the wrapped error's.
EclssError_should_reset(k) == Sgp30Error_should_reset(k)

\* The EclssError<Sgp30Error> an adapter call returns, as run_sensor sees it.
EclssError(k) ==
    [i2c |-> Sgp30Error_i2c_error(k), reset |-> EclssError_should_reset(k)]

\* A calibration phase of CALIBRATION_POLLS polls.
in_calibration_short(n) == n < CALIBRATION_POLLS

\* `if self.calibration_polls <= 15`.
in_calibration(n) == n <= CALIBRATION_POLLS

\* `if tvoc_ppb == MAX_TVOC`.
saturated_bad(t) == t > MAX_TVOC
saturated(t) == t = MAX_TVOC

\* refresh_baseline: load is skipped when last_good_baseline.is_some().
needs_load_bad(lgb) == TRUE
needs_load(lgb) == lgb = {}

\* `if self.last_good_baseline.as_ref() != Some(&baseline)`.
baseline_is_new_bad(lgb, read) == TRUE
baseline_is_new(lgb, read) == lgb # read

\* History of a run of saturated readings: a call failed for another reason.
EpAfterFailure(ep) ==
    IF ep.n > 0 THEN [ep EXCEPT !.n = 4]
    ELSE IF ep.done THEN NoEpisode ELSE ep

\* History of a run of saturated readings: a poll past calibration read t,
\* and `reported` tells whether it returned Saturated.  The run starts with
\* the sensor Up, and is complete when a normal reading follows the third
\* saturated one; `delta` is then what the run added to the reset counter.
EpAfterReading(ep, t, reported) ==
    IF t = MAX_TVOC
      THEN IF ep.n = 0
             THEN IF status[SGP30] = "Up"
                    THEN [n |-> 1, base |-> resets[SGP30],
                          errs |-> IF reported THEN 1 ELSE 0,
                          done |-> FALSE, delta |-> 0]
                    ELSE NoEpisode
             ELSE IF ep.n < 3
                    THEN [ep EXCEPT !.n = @ + 1,
                                    !.errs = IF reported THEN @ + 1 ELSE @]
                    ELSE [ep EXCEPT !.n = 4]
      ELSE IF ep.n = 3
             THEN [ep EXCEPT !.n = 0, !.done = TRUE,
                             !.delta = resets[SGP30] - ep.base]
             ELSE NoEpisode

\* Sgp30::init fails before refresh_baseline: serial, get_feature_set,
\* selftest or force_init returns an I2C error, or the self-test fails.
Sgp30InitEarlyFail(k) ==
    /\ k \in {"NoAcknowledge", "SelfTestFailed"}
    /\ OnInitErr(SGP30, EclssError(k))
    /\ sgp' = [sgp EXCEPT !.ep = EpAfterFailure(sgp.ep)]
    /\ UNCHANGED <<scd, libVars>>

\* The device's baseline after force_init: the init command starts the
\* device's baseline algorithm anew, without a baseline set.
force_init(device) == {}

\* The device's baseline after set_baseline(baseline).
set_baseline(device, baseline) == baseline

\* An init that sends the baseline before the init command.
init_device_bad(device, baseline) == force_init(set_baseline(device, baseline))

\* Sgp30::init with a baseline known: force_init, then set_baseline.
init_device(device, baseline) == set_baseline(force_init(device), baseline)

\* Sgp30::init from force_init on: refresh_baseline loads the baseline
\* unless one is known (load returns what the store holds, or an error),
\* then set_baseline sends the known baseline, if any, to the device; init
\* fails when set_baseline does.
Sgp30InitLoaded(loadOk, setOk) ==
    LET lgb == sgp.last_good_baseline
        loading == needs_load(lgb)
        lgb1 == IF loading THEN (IF loadOk THEN sgp.file ELSE {}) ELSE lgb
        after == [sgp EXCEPT
                    !.last_good_baseline = lgb1,
                    !.loads = IF loading THEN @ + 1 ELSE @,
                    !.known = IF loading /\ loadOk /\ sgp.file # {}
                                THEN sgp.file ELSE @,
                    !.loaded = IF loading /\ loadOk /\ sgp.file # {}
                                 THEN sgp.file ELSE @,
                    !.device = force_init(sgp.device)]
    IN  IF lgb1 = {} \/ setOk
          THEN /\ sgp' = [after EXCEPT
                            !.device = IF lgb1 = {} THEN force_init(sgp.device)
                                       ELSE init_device(sgp.device, lgb1)]
               /\ OnInitOk(SGP30)
               /\ UNCHANGED <<scd, libVars>>
          ELSE /\ sgp' = [after EXCEPT !.ep = EpAfterFailure(sgp.ep)]
               /\ OnInitErr(SGP30, EclssError("NoAcknowledge"))
               /\ UNCHANGED <<scd, libVars>>

\* Sgp30::poll fails before a measurement is read: set_humidity or measure
\* returns an I2C error.
Sgp30PollI2cFail ==
    /\ OnPollErr(SGP30, EclssError("NoAcknowledge"))
    /\ sgp' = [sgp EXCEPT !.op = NoStore, !.ep = EpAfterFailure(sgp.ep),
                          !.reading = {}]
    /\ UNCHANGED <<scd, libVars>>

\* Sgp30::poll with a measurement read: get_baseline returned `read` (the
\* empty set for an error, which poll tolerates) and measure returned a TVOC
\* of t.  A calibration poll is counted and returns; a saturated reading
\* returns Saturated; otherwise the gauges are set, and a baseline that is
\* new becomes last_good_baseline and is handed to store, whose error poll
\* only logs.
Sgp30PollMeasured(read, t, storeOk) ==
    LET got == [sgp EXCEPT !.reading = {t},
                           !.measured = IF @ <= CALIBRATION_POLLS + 1
                                          THEN @ + 1 ELSE @]
    IN
    IF in_calibration(sgp.calibration_polls)
      THEN /\ sgp' = [got EXCEPT !.calibration_polls = @ + 1, !.op = NoStore]
           /\ OnPollOk(SGP30)
           /\ UNCHANGED <<scd, libVars>>
      ELSE IF saturated(t)
        THEN /\ sgp' = [got EXCEPT !.op = NoStore,
                                   !.ep = EpAfterReading(sgp.ep, t, TRUE)]
             /\ OnPollErr(SGP30, EclssError("Saturated"))
             /\ UNCHANGED <<scd, libVars>>
        ELSE LET storing == read # {} /\ baseline_is_new(sgp.last_good_baseline, read)
             IN  /\ sgp' = [got EXCEPT
                              !.tvoc = {t},
                              !.last_good_baseline = IF storing THEN read ELSE @,
                              !.known = IF storing /\ storeOk THEN read ELSE @,
                              !.op = IF storing
                                       THEN [stored |-> TRUE, at |-> status[SGP30],
                                             prev |-> sgp.last_good_baseline,
                                             known |-> sgp.known]
                                       ELSE NoStore,
                              !.ep = EpAfterReading(sgp.ep, t, FALSE)]
                 /\ OnPollOk(SGP30)
                 /\ UNCHANGED <<scd, libVars>>

\* The daemon with the SGP30 alone, no limit on init attempts, over a store
\* that holds no baseline or one.
Sgp30Init ==
    /\ SupInit({{SGP30}}, {REGISTRY_SENSORS},
               [initial_ms : {1}, max_ms : {2}, max_init_attempts : {{}}], {{}})
    /\ sgp \in {Sgp30New(f) : f \in {{}} \cup {{b} : b \in Baselines}}
    /\ scd = Scd41New
    /\ LibIdle

Sgp30Next ==
    \/ Register(SGP30)
    \/ InitBegin(SGP30)
    \/ BusGrant(SGP30)
    \/ PollBegin(SGP30)
    \/ \E k \in {"NoAcknowledge", "SelfTestFailed"} : Sgp30InitEarlyFail(k)
    \/ \E loadOk, setOk \in BOOLEAN : Sgp30InitLoaded(loadOk, setOk)
    \/ Sgp30PollI2cFail
    \/ \E read \in {{}} \cup {{b} : b \in Baselines}, t \in TvocReadings,
          storeOk \in BOOLEAN : Sgp30PollMeasured(read, t, storeOk)

SpecSgp30 == Sgp30Init /\ [][Sgp30Next]_vars

\* C16 as claimed: when an SGP30 that is Up and past calibration reads a
\* TVOC of 60000 on three consecutive polls and a normal value on the next
\* one, the status has passed through SensorError, the supervisor has
\* re-entered INIT, the reset counter has increased by exactly 1 and the
\* status is Up again.
C16_SaturationRunResetsOnce ==
    sgp.ep.done =>
        /\ sgp.ep.errs >= 1
        /\ sgp.ep.delta = 1
        /\ status[SGP30] = "Up"

\* C16 as amended: each of the three saturated polls returns Saturated,
\* writes SensorError and re-enters INIT, so when the normal reading
\* arrives the reset counter has increased by exactly 3 and the status is
\* Up again; while the run lasts, every saturated poll has been reported.
C16_SaturationRunResetsPerPoll ==
    /\ sgp.ep.done =>
          /\ sgp.ep.errs = 3
          /\ sgp.ep.delta = 3
          /\ status[SGP30] = "Up"
    /\ sgp.ep.n \in 1..3 => sgp.ep.errs = sgp.ep.n
    /\ (sgp.ep.n \in 1..3 /\ pc[SGP30] = "init_ready")
          => /\ status[SGP30] = "SensorError"
             /\ calls[SGP30].last = "poll_reset"

\* C16 witness: the normal reading after three saturated ones has arrived.
C16_Witness ==
    /\ sgp.ep.done
    /\ sgp.ep.delta = 3
    /\ resets[SGP30] = 3
    /\ sgp.tvoc = {400}
    /\ status[SGP30] = "Up"

\* C19 as claimed: a poll of the SGP30 calls store only when the baseline
\* it read differs from the baseline last loaded or persisted, and only
\* while the sensor's status is Up.
C19_StoreOnlyNewBaselineWhileUp ==
    sgp.op.stored =>
        /\ sgp.last_good_baseline # sgp.op.known
        /\ sgp.op.at = "Up"

\* C19 as amended: a poll of the SGP30 calls store only past calibration,
\* on a reading that is not saturated, and when the baseline it read
\* differs from last_good_baseline, the baseline last loaded or last handed
\* to store; the status at that moment is the one the previous adapter call
\* left: Up, Initializing or an error status, and it is Up once that poll
\* has returned.
C19_StoreOnlyNewBaseline ==
    sgp.op.stored =>
        /\ sgp.last_good_baseline # sgp.op.prev
        /\ sgp.last_good_baseline # {}
        /\ ~in_calibration(sgp.calibration_polls)
        /\ sgp.tvoc # {MAX_TVOC}
        /\ sgp.op.at \in {"Up", "Initializing"} \cup ErrorStatuses
        /\ calls[SGP30].last = "poll_ok"
        /\ status[SGP30] = "Up"

\* C19 witness: a poll that was retried after a transient failure stored a
\* baseline different from the loaded one.
C19_Witness ==
    /\ sgp.op.stored
    /\ sgp.op.at = "NoAcknowledge"
    /\ sgp.op.prev = {1}
    /\ sgp.last_good_baseline = {2}
    /\ sgp.known = {2}
    /\ status[SGP30] = "Up"

\* C20 as claimed: over all init attempts, init failures and resets of the
\* SGP30, load is called at most once.
C20_LoadAtMostOnce == sgp.loads <= 1

\* C20 as amended: load is called by every init that gets past force_init
\* while no baseline is known, and by no init once a baseline was loaded or
\* read by a poll; so it is called once when the store holds a baseline
\* and the load succeeds, and again on each re-init otherwise.
C20_LoadWhileNoBaseline ==
    [][/\ sgp'.loads # sgp.loads
          => /\ sgp.last_good_baseline = {}
             /\ pc[SGP30] = "init_txn"
             /\ sgp'.loads = sgp.loads + 1
       /\ (pc[SGP30] = "init_txn" /\ calls'[SGP30].last = "init_ok"
             /\ sgp.last_good_baseline = {})
          => sgp'.loads = sgp.loads + 1
       /\ sgp.last_good_baseline # {}
          => /\ sgp'.loads = sgp.loads
             /\ sgp'.last_good_baseline # {}]_vars

\* C20 witness: the store holds no baseline, and the third init of the
\* sensor, after two resets, has called load a third time.
C20_Witness ==
    /\ sgp.loads = 3
    /\ sgp.file = {}
    /\ resets[SGP30] = 2
    /\ sgp.last_good_baseline = {}

(***************************************************************************)
(* StateFile (eclssd storage.rs): the file-backed Store.                   *)
(***************************************************************************)
MaxFileLines == 6

\* StoredBaseline (sgp30.rs): the record the SGP30 adapter stores.
StoredBaselines == [co2eq : Baselines, tvoc : Baselines]

\* toml::to_string_pretty of a StoredBaseline: one `key = value` line per
\* field, in declaration order.
to_string_pretty(state) == << <<"co2eq", state.co2eq>>, <<"tvoc", state.tvoc>> >>

\* toml::from_str::<StoredBaseline>: an error if a key is defined twice or
\* a field is missing, else the record of the values.
from_str(buf) ==
    LET defined(k) == {i \in 1..Len(buf) : buf[i][1] = k}
        value(k) == buf[CHOOSE i \in defined(k) : TRUE][2]
    IN IF \A k \in {"co2eq", "tvoc"} : Cardinality(defined(k)) = 1
       THEN [ok |-> TRUE, val |-> {[co2eq |-> value("co2eq"), tvoc |-> value("tvoc")]}]
       ELSE [ok |-> FALSE, val |-> {}]

\* read_to_string on the open file: everything from the cursor to the end.
read_to_string(file, cursor) == SubSeq(file, cursor + 1, Len(file))

\* write_all on the open file: the buffer replaces what the file holds from
\* the cursor on, line for line, and extends the file where it is longer
\* (every value is taken to be as wide as the one it overwrites).
write_all(file, cursor, buf) ==
    SubSeq(file, 1, cursor) \o buf \o SubSeq(file, cursor + Len(buf) + 1, Len(file))

\* StateFile::load: reads from the cursor to the end of the file, returns
\* Ok(None) if that is empty and the parsed text otherwise.
SfLoad ==
    LET buf == read_to_string(sf.file, sf.cursor)
    IN /\ sf' = [sf EXCEPT !.cursor = Len(sf.file),
                           !.res = IF buf = <<>> THEN [ok |-> TRUE, val |-> {}]
                                   ELSE from_str(buf),
                           !.op = "load",
                           !.next = sf.afterStore,
                           !.afterStore = FALSE]
       /\ UNCHANGED <<progVars, drvVars, pollCount, families, response>>

\* StateFile::store: serializes the state and writes it at the cursor.
SfStore(state) ==
    LET buf == to_string_pretty(state)
    IN /\ sf.cursor + Len(buf) <= MaxFileLines
       /\ sf' = [sf EXCEPT !.file = write_all(sf.file, sf.cursor, buf),
                           !.cursor = sf.cursor + Len(buf),
                           !.op = "store",
                           !.stored = {state},
                           !.afterStore = TRUE]
       /\ UNCHANGED <<progVars, drvVars, pollCount, families, response>>

\* A restart of the daemon: StateDir::sensor_state opens the same file
\* again, without truncating it, the cursor at the start.
SfRestart ==
    /\ sf.op # "open"
    /\ sf' = [sf EXCEPT !.cursor = 0, !.op = "open"]
    /\ UNCHANGED <<progVars, drvVars, pollCount, families, response>>

\* The supervisor, the backoff and the adapters idle, where only a library
\* part is driven.
LibBase ==
    /\ cfg = [initial_ms |-> 1, max_ms |-> 2, max_init_attempts |-> {}]
    /\ bk = [exp |-> new_exp, ops |-> <<"new">>, delay |-> -1, prev |-> -1,
             cur |-> -1, waits |-> 0, pre |-> -1]
    /\ IdleSup
    /\ sgp = Sgp30New({})
    /\ scd = Scd41New

\* The state file is new and empty, or holds one baseline of an earlier run.
StoreInit ==
    /\ LibBase
    /\ sf \in {StateFileOpen(<<>>)}
              \cup {StateFileOpen(to_string_pretty(b)) : b \in StoredBaselines}
    /\ pollCount = PollCountNew("-", 1, 0, 0)
    /\ families = SensorMetricsNew
    /\ response = NoResponse
    /\ DrvIdle

StoreNext == SfLoad \/ SfRestart \/ \E b \in StoredBaselines : SfStore(b)

SpecStore == StoreInit /\ [][StoreNext]_vars

\* C21: on the StateFile, the next load after a store(b) that returned Ok
\* returns Some(b), on the same open store and across a restart, whatever
\* loads and stores came before.
C21_LoadReturnsLastStored ==
    (sf.op = "load" /\ sf.next) => sf.res = [ok |-> TRUE, val |-> sf.stored]

\* C22 as claimed: when a persisted baseline exists, the RUNNING phase is
\* entered only with a baseline set on the device since its init command.
C22_PersistedBaselineApplied ==
    (InRunningPhase(SGP30) /\ sgp.file # {}) => sgp.device # {}

\* C22 as amended: when load returned a persisted baseline, every state of
\* the RUNNING phase, and so every measurement, finds a baseline set on the
\* device since its last init command, and in the first RUNNING phase it is
\* the loaded one; and an init call that returns with a baseline known but
\* not set on the device has failed: the supervisor backs off and calls
\* init again, it does not poll.  When load fails, init goes on without a
\* baseline although the store holds one.
C22_LoadedBaselineApplied ==
    /\ [](/\ (InRunningPhase(SGP30) /\ sgp.loaded # {}) =>
               /\ sgp.device # {}
               /\ calls[SGP30].okInits = 1 => sgp.device = sgp.loaded
          /\ (InRunningPhase(SGP30) /\ sgp.file # {} /\ sgp.device = {}) =>
               sgp.loaded = {})
    /\ [][(/\ pc[SGP30] = "init_txn"
           /\ pc'[SGP30] # "init_txn"
           /\ sgp'.last_good_baseline # {}
           /\ sgp'.device = {})
          => /\ pc'[SGP30] = "init_backoff"
             /\ calls'[SGP30].last = "init_err"
             /\ ~InRunningPhase(SGP30)']_vars

\* C22 witness: the first RUNNING phase after an init whose set_baseline
\* failed once: the loaded baseline is on the device.
C22_Witness ==
    /\ InRunningPhase(SGP30)
    /\ sgp.loaded # {}
    /\ sgp.device = sgp.loaded
    /\ calls[SGP30].okInits = 1
    /\ errors[SGP30] = 1
    /\ sgp.loads = 1

(***************************************************************************)
(* PollCount (sensor.rs) and the polls of the adapters that publish the    *)
(* absolute humidity (bme680.rs, scd.rs, sht41.rs, sen55.rs).              *)
(***************************************************************************)
MaxStride == 4
MaxPolls == 8

RhAdapters == {"BME680", "SCD41", "SHT41", "SEN55"}

\* PollCount::add: `self.polls += 1` on a Wrapping<u32>.
add(c) ==
    IF c.lo = 65535 THEN [c EXCEPT !.hi = (@ + 1) % 65536, !.lo = 0]
    ELSE [c EXCEPT !.lo = @ + 1]

\* `polls.0 % interval` on the u32 hi * 2^16 + lo.
rem_u32(c, interval) ==
    ((c.hi % interval) * (65536 % interval) + (c.lo % interval)) % interval

\* A stride test that looks at the low half of the counter only.
should_calc_abs_humidity_u16(c) == c.lo % c.abs_humidity_interval = 0

\* PollCount::should_calc_abs_humidity.
should_calc_abs_humidity(c) == rem_u32(c, c.abs_humidity_interval) = 0

\* Bme680::poll counts the poll before it tests the stride; record_measurement
\* (SCD30, SCD40, SCD41), Sht41::poll and Sen55::poll count it afterwards.
counts_first(a) == a = "BME680"

\* A poll that took a reading: it is counted, and the absolute humidity is
\* published if the stride test passes on the counter and, on the SEN55,
\* the reading has both a temperature and a relative humidity.  On the
\* SCD41 the poll can still fail afterwards, when set_ambient_pressure does.
PcPollReading(complete, ok) ==
    LET c == pollCount
        counted == add(c)
        wraps == counted.hi = 0 /\ counted.lo = 0
        tested == IF counts_first(c.adapter) THEN counted ELSE c
        turn == should_calc_abs_humidity(tested)
        publishes == turn /\ complete
        wrappedAtTest == c.wrapped \/ (counts_first(c.adapter) /\ wraps)
        missedAtTest == c.missed \/ (turn /\ ~complete)
    IN /\ c.adapter \in RhAdapters
       /\ c.n < MaxPolls
       /\ complete \/ c.adapter = "SEN55"
       /\ ok \/ c.adapter = "SCD41"
       /\ pollCount' =
            [counted EXCEPT
               !.n = @ + 1,
               !.ok = ok,
               !.published = publishes,
               !.since = IF publishes THEN 0 ELSE @ + 1,
               !.wrapped = IF publishes THEN (~counts_first(c.adapter) /\ wraps)
                           ELSE (@ \/ wraps),
               !.missed = IF publishes THEN FALSE ELSE missedAtTest,
               !.any = @ \/ publishes,
               !.had = IF publishes THEN c.any ELSE @,
               !.gap = IF publishes THEN c.since + 1 ELSE @,
               !.gapWrapped = IF publishes THEN wrappedAtTest ELSE @,
               !.gapMissed = IF publishes THEN c.missed ELSE @,
               !.okSince = IF ~ok THEN @ ELSE IF publishes THEN 0 ELSE @ + 1,
               !.okAny = @ \/ (ok /\ publishes),
               !.okHad = IF ok /\ publishes THEN c.okAny ELSE @,
               !.okGap = IF ok /\ publishes THEN c.okSince + 1 ELSE @]
       /\ UNCHANGED <<progVars, drvVars, sf, families, response>>

\* A poll that returns Ok without a reading: Bme680::poll after six
\* measurement timeouts, Sen55::poll when the data is not ready.  It is not
\* counted and publishes nothing.
PcPollNoReading ==
    /\ pollCount.adapter \in {"BME680", "SEN55"}
    /\ pollCount.n < MaxPolls
    /\ pollCount' = [pollCount EXCEPT !.n = @ + 1, !.ok = TRUE,
                                      !.published = FALSE,
                                      !.okSince = @ + 1]
    /\ UNCHANGED <<progVars, drvVars, sf, families, response>>

\* A poll that fails before it has a reading: it returns the error, it is
\* not counted and publishes nothing.
PcPollFailed ==
    /\ pollCount.adapter \in RhAdapters
    /\ pollCount.n < MaxPolls
    /\ pollCount' = [pollCount EXCEPT !.n = @ + 1, !.ok = FALSE,
                                      !.published = FALSE]
    /\ UNCHANGED <<progVars, drvVars, sf, families, response>>

\* An adapter with any stride of 1 and more, its counter anywhere: at the
\* start, or within a few polls of the carry into the high half or of the
\* wrap-around.
PollInit ==
    /\ LibBase
    /\ pollCount \in {PollCountNew(a, n, h, l) :
                        a \in RhAdapters, n \in 1..MaxStride, h \in {0, 65535},
                        l \in {0} \cup ((65535 - MaxStride)..65535)}
    /\ sf = StateFileOpen(<<>>)
    /\ families = SensorMetricsNew
    /\ response = NoResponse
    /\ DrvIdle

PollNext ==
    \/ \E complete, ok \in BOOLEAN : PcPollReading(complete, ok)
    \/ PcPollNoReading
    \/ PcPollFailed

SpecPoll == PollInit /\ [][PollNext]_vars

\* 2^32 modulo the stride.
WrapRemainder(n) == ((65536 % n) * (65536 % n)) % n

\* C23 as claimed: of every N consecutive successful polls exactly one
\* publishes the absolute humidity, also across the wrap-around: there are
\* never N successful polls in a row without a publishing one, and from one
\* publishing poll to the next there are exactly N successful polls.
C23_OneOfEveryNSuccessfulPolls ==
    /\ pollCount.okSince < pollCount.abs_humidity_interval
    /\ pollCount.okHad => pollCount.okGap = pollCount.abs_humidity_interval

\* C23 as amended: over the polls that took a reading, which are the ones
\* the counter counts, there are never N in a row without a publishing one
\* unless an incomplete SEN55 reading fell on the publishing turn, and from
\* one publishing poll to the next there are exactly N counted polls unless
\* the counter wrapped in between; across the wrap-around there are
\* 2^32 mod N of them when N does not divide 2^32.
C23_OneOfEveryNCountedPolls ==
    LET c == pollCount
        N == c.abs_humidity_interval
    IN /\ ~c.missed => c.since < N
       /\ (c.had /\ ~c.gapMissed /\ ~c.gapWrapped) => c.gap = N
       /\ (c.had /\ ~c.gapMissed /\ c.gapWrapped) =>
             c.gap = IF WrapRemainder(N) = 0 THEN N ELSE WrapRemainder(N)

\* C23 witness: across the wrap-around with a stride of 3, the poll at
\* counter 0 publishes right after the poll at counter 2^32 - 1 did.
C23_Witness ==
    /\ pollCount.abs_humidity_interval = 3
    /\ pollCount.hi = 0
    /\ pollCount.lo = 1
    /\ pollCount.published
    /\ pollCount.had
    /\ pollCount.gapWrapped
    /\ pollCount.gap = 1
    /\ pollCount.adapter = "SHT41"

\* C24: after a failed init or poll, and until the next init attempt writes
\* Initializing, the status is the mapping of the I2C kind of the error the
\* adapter returned inside its EclssError: none -> SensorError,
\* NoAcknowledge -> NoAcknowledge, Bus -> BusError, any other kind ->
\* OtherI2cError.
C24_StatusMapsI2cKind ==
    \A s \in sensors :
        (calls[s].err # "-" /\ ~InInitCall(s)) =>
            /\ calls[s].last \in {"init_err", "poll_err", "poll_reset"}
            /\ calls[s].err = None => status[s] = "SensorError"
            /\ calls[s].err = "NoAcknowledge" => status[s] = "NoAcknowledge"
            /\ calls[s].err = "Bus" => status[s] = "BusError"
            /\ calls[s].err = "Other" => status[s] = "OtherI2cError"

\* C24 witness: a poll failed with a bus error after an init had failed
\* with another I2C error.
C24_Witness ==
    \E s \in sensors :
        /\ calls[s].last = "poll_err"
        /\ calls[s].err = "Bus"
        /\ status[s] = "BusError"
        /\ errors[s] = 2
        /\ calls[s].okInits = 1

\* C25 as claimed: on a backoff that was constructed or cloned and never
\* reset, the first wait sleeps for zero time and leaves the counter at 1,
\* and the second wait sleeps for exactly the initial backoff.
C25_FirstWaitZeroThenInitial ==
    (bk.pre = -1 /\ LastOp = "wait") =>
        /\ bk.waits = 1 => (bk.delay = 0 /\ bk.exp = 1)
        /\ bk.waits = 2 => bk.delay = cfg.initial_ms

\* C25 as amended: on a backoff that was constructed or cloned and never
\* reset, the first wait sleeps for zero time; when the max backoff is
\* positive it leaves the counter at 1 and the second wait sleeps for
\* exactly the initial backoff; when the max backoff is zero the counter
\* stays at 0 and the second wait sleeps for zero time too.
C25_FirstWaitZeroThenInitialBelowMax ==
    (bk.pre = -1 /\ LastOp = "wait") =>
        /\ bk.waits = 1 =>
             /\ bk.delay = 0
             /\ bk.exp = IF cfg.max_ms > 0 THEN 1 ELSE 0
        /\ bk.waits = 2 =>
             /\ bk.prev = 0
             /\ bk.delay = IF cfg.max_ms > 0 THEN cfg.initial_ms ELSE 0

\* C25 witness: the second wait of a fresh backoff slept for a positive
\* initial backoff after the first one slept for zero time.
C25_Witness ==
    /\ bk.pre = -1
    /\ bk.ops = <<"wait", "wait">>
    /\ bk.waits = 2
    /\ bk.prev = 0
    /\ cfg.initial_ms > 0
    /\ bk.delay = cfg.initial_ms

(***************************************************************************)
(* Cancellation: a run_sensor task dropped at a suspension point.          *)
(***************************************************************************)
\* The awaits of run_sensor and of SharedBus::transaction.
SuspensionPoints ==
    {"init_lock", "init_txn", "init_backoff", "poll_sleep", "poll_lock",
     "poll_txn", "poll_backoff"}

\* A drop that takes the task out of the wait queue but leaks its guard.
dropped_bus_leaky(b, s) ==
    [b EXCEPT !.waiters = SelectSeq(b.waiters, LAMBDA w : w # s)]

\* Dropping the future of `self.0.lock().await.transaction(..).await`: the
\* lock future leaves the wait queue, the guard, a temporary of the
\* expression, is dropped and unlocks the mutex.
dropped_bus(b, s) == WithoutTask(b, s)

\* The task of sensor s is dropped while it is suspended.
DropTask(s) ==
    /\ Running(s) /\ pc[s] \in SuspensionPoints
    /\ pc' = [pc EXCEPT ![s] = "aborted"]
    /\ bus' = dropped_bus(bus, s)
    /\ UNCHANGED <<cfg, bk, sensors, capacity, registry, status, errors, resets,
                   exp, attempts, has_come_up, mainState, faults, trail,
                   failedCalls, calls, sgp, scd, libVars>>

\* The daemon with both sensors on one bus, no limit on init attempts, and
\* devices that can fail a call with NoAcknowledge.
CancelInit ==
    /\ SupInit({DaemonSensors}, {REGISTRY_SENSORS},
               [initial_ms : {1}, max_ms : {2}, max_init_attempts : {{}}],
               {{[i2c |-> "NoAcknowledge", reset |-> FALSE]}})
    /\ AdaptersIdle

\* The adapter call of s returns from its transaction.
TxnEnds(s) ==
    \/ AdapterContinue(s)
    \/ InitOk(s)
    \/ PollOk(s)
    \/ \E e \in Errors : InitFail(s, e)
    \/ \E e \in Errors : PollFail(s, e)

CancelNext ==
    \/ \E s \in DaemonSensors : Register(s)
    \/ \E s \in DaemonSensors : InitBegin(s)
    \/ \E s \in DaemonSensors : BusGrant(s)
    \/ \E s \in DaemonSensors : PollBegin(s)
    \/ \E s \in DaemonSensors : TxnEnds(s)
    \/ \E s \in DaemonSensors : DropTask(s)

\* The mutex hands the bus to its waiters in FIFO order, and a transaction
\* on the bus returns; when a task is dropped is up to its owner.
SpecCancel ==
    /\ CancelInit
    /\ [][CancelNext]_vars
    /\ \A s \in DaemonSensors : WF_vars(BusGrant(s)) /\ WF_vars(TxnEnds(s))

\* C26: a task dropped at a suspension point neither holds the bus nor
\* waits for it, the bus is only ever held by a live task inside a
\* transaction, and every task that asks for the bus gets it, unless it is
\* dropped itself.
C26_DroppedTaskFreesBus ==
    /\ [](\A s \in DaemonSensors :
            /\ pc[s] = "aborted" =>
                 /\ bus.holder # s
                 /\ \A i \in 1..Len(bus.waiters) : bus.waiters[i] # s
            /\ bus.holder = s => (InTxn(s) /\ Running(s)))
    /\ \A t \in DaemonSensors :
          (pc[t] \in {"init_lock", "poll_lock"}) ~> (InTxn(t) \/ pc[t] = "aborted")

\* C26 witness: one task was dropped inside a bus transaction, and the
\* other one holds the bus in a transaction of its own.
C26_Witness ==
    \E s, t \in DaemonSensors :
        /\ pc[s] = "aborted"
        /\ calls[s].last = "init_err"
        /\ InTxn(t)
        /\ bus.holder = t
        /\ calls[t].last = "poll_ok"

\* The status that stands for an I2C kind.
StatusOfKind(k) ==
    CASE k = None -> "SensorError"
      [] k = "NoAcknowledge" -> "NoAcknowledge"
      [] k = "Bus" -> "BusError"
      [] k = "Other" -> "OtherI2cError"

NoAck == [i2c |-> "NoAcknowledge", reset |-> FALSE]

\* Both sensors enabled and absent, no limit on init attempts.
AbsentInit ==
    /\ SupInit({DaemonSensors}, {REGISTRY_SENSORS},
               [initial_ms : {1, 2}, max_ms : {2, 3}, max_init_attempts : {{}}],
               {{NoAck}})
    /\ AdaptersIdle

\* An init attempt begins; the model follows each sensor up to its
\* MaxErrors-th failed call and leaves it in its backoff sleep then.
AbsentInitBegin(s) == failedCalls[s] < MaxErrors /\ InitBegin(s)

\* The first transaction of every init call is not acknowledged.
AbsentNext ==
    \/ \E s \in DaemonSensors : Register(s)
    \/ \E s \in DaemonSensors : AbsentInitBegin(s)
    \/ \E s \in DaemonSensors : BusGrant(s)
    \/ \E s \in DaemonSensors : InitFail(s, NoAck)

\* Tasks are scheduled fairly, a backoff sleep ends, the mutex hands the bus
\* to its waiters in FIFO order, and a transaction with an absent device
\* returns its error.
SpecAbsent ==
    /\ AbsentInit
    /\ [][AbsentNext]_vars
    /\ \A s \in DaemonSensors :
          /\ WF_vars(Register(s))
          /\ WF_vars(AbsentInitBegin(s))
          /\ WF_vars(BusGrant(s))
          /\ WF_vars(InitFail(s, NoAck))

\* C28: with sensors that never acknowledge and no max_init_attempts, each
\* sensor's task never ends, and from every value of its error counter
\* (below the bound on the failed calls of the model) the counter reaches
\* the next one: the supervisor never stops retrying and never gets stuck
\* between two attempts.
C28_ErrorsKeepIncreasing ==
    /\ [](\A s \in DaemonSensors : ~Stopped(s))
    /\ \A s \in DaemonSensors : \A n \in 0..(MaxErrors - 1) :
          (errors[s] = n) ~> (errors[s] = n + 1)

\* C28 witness: a sensor has failed three init attempts and sleeps its
\* backoff before the next one.
C28_Witness ==
    \E s \in DaemonSensors :
        /\ cfg.max_init_attempts = {}
        /\ errors[s] >= 3
        /\ attempts[s] >= 3
        /\ pc[s] = "init_backoff"
        /\ status[s] = "NoAcknowledge"

\* C29 as claimed: once a sensor's first attempt has failed, its status
\* reads NoAcknowledge at every point of the retry cycle.
C29_AlwaysNoAcknowledge ==
    \A s \in DaemonSensors : errors[s] >= 1 => status[s] = "NoAcknowledge"

\* C29 as amended: once a sensor's first attempt has failed, its status
\* reads NoAcknowledge from the return of a failed init call to the end of
\* the backoff sleep, and Initializing while an init attempt is in progress.
C29_NoAcknowledgeBetweenAttempts ==
    \A s \in DaemonSensors :
        errors[s] >= 1 =>
            /\ pc[s] = "init_backoff" => status[s] = "NoAcknowledge"
            /\ InInitCall(s) => status[s] = "Initializing"
            /\ pc[s] \in {"init_backoff", "init_lock", "init_txn"}

\* C29 witness: a second init attempt is in progress, after the first one
\* was not acknowledged, and the status reads Initializing.
C29_Witness ==
    \E s \in DaemonSensors :
        /\ errors[s] = 1
        /\ calls[s].err = "NoAcknowledge"
        /\ pc[s] = "init_txn"
        /\ status[s] = "Initializing"

(***************************************************************************)
(* SensorMetrics (metrics.rs) and the /metrics.json handler (eclss-axum).  *)
(***************************************************************************)
MaxMetrics == 2

\* The labels the adapters register in each family: sensor names, and in
\* the particulate families a diameter and a sensor name.
FamilyLabels(f) ==
    CASE f = "temp_c" -> {"BME680", "SEN55"}
      [] f = "co2_ppm" -> {"SCD41"}
      [] f = "eco2_ppm" -> {"SGP30"}
      [] f = "rel_humidity_percent" -> {"BME680"}
      [] f = "abs_humidity_grams_m3" -> {"BME680"}
      [] f = "pressure_hpa" -> {"BME680"}
      [] f = "gas_resistance" -> {"BME680"}
      [] f = "tvoc_ppb" -> {"SGP30"}
      [] f = "tvoc_iaq_index" -> {"SEN55"}
      [] f = "nox_iaq_index" -> {"SEN55"}
      [] f = "pm_conc" -> {<<"1.0", "SEN55">>, <<"2.5", "PMSA003I">>}
      [] f = "pm_count" -> {<<"0.3", "PMSA003I">>}
      [] f = "sensor_errors" -> {"SGP30"}
      [] f = "sensor_reset_count" -> {"SGP30"}

\* The number of metrics registered in all families.
RECURSIVE Registered(_, _)
Registered(m, fs) ==
    IF fs = {} THEN 0
    ELSE LET f == CHOOSE x \in fs : TRUE
         IN Cardinality(m[f].reg) + Registered(m, fs \ {f})

\* An adapter's constructor registers its metric in a family.
MetricRegister(f, l) ==
    /\ l \in FamilyLabels(f) \ families[f].reg
    /\ Registered(families, Families) < MaxMetrics
    /\ families' = [families EXCEPT ![f].reg = @ \cup {l}]
    /\ UNCHANGED <<progVars, drvVars, sf, pollCount, response>>

\* A poll sets the value of a registered metric for the first time.
MetricRecord(f, l) ==
    /\ l \in families[f].reg \ families[f].rec
    /\ families' = [families EXCEPT ![f].rec = @ \cup {l}]
    /\ UNCHANGED <<progVars, drvVars, sf, pollCount, response>>

\* The fields of SensorMetrics that carry #[serde(skip)].
serde_skip(f) == f \in {"pm_conc", "pm_count"}

\* A serializer that emits every registered metric.
serialize_metric_registered(family) == family.reg

\* serialize_metric: one {sensor, value} element per metric of the family
\* that has been recorded, none for the others.
serialize_metric(family) == family.rec

\* The derived Serialize of SensorMetrics, flattened into MetricsResponse:
\* one key per field that is not skipped.
metrics_json(m) ==
    [f \in {x \in Families : ~serde_skip(x)} |-> serialize_metric(m[f])]

\* A scrape that clears the recorded values it has reported.
after_request_cleared(m) == [f \in Families |-> [m[f] EXCEPT !.rec = {}]]

\* The handlers hold `&'static SensorMetrics` and `&'static Registry` and
\* only read through them: the metrics after a request are the metrics
\* before it.
after_request(m) == m

\* The values of the sensor_errors and sensor_reset_count counters of the
\* registered sensors.
counter_values == [s \in registry |-> <<errors[s], resets[s]>>]

\* get_metrics_json: the body is the serialized SensorMetrics; `at` keeps
\* the metrics as they were when the request was answered.
GetMetricsJson ==
    /\ response' = [served |-> TRUE, route |-> "/metrics.json",
                    body |-> metrics_json(families), at |-> families,
                    values |-> counter_values]
    /\ families' = after_request(families)
    /\ UNCHANGED <<progVars, drvVars, sf, pollCount>>

\* SensorMetrics::fmt_metrics: the text of all fourteen families, one line
\* per recorded metric.
fmt_metrics(m) == [f \in Families |-> m[f].rec]

\* get_metrics: the body is the text that fmt_metrics writes.
GetMetrics ==
    /\ response' = [served |-> TRUE, route |-> "/metrics",
                    body |-> fmt_metrics(families), at |-> families,
                    values |-> counter_values]
    /\ families' = after_request(families)
    /\ UNCHANGED <<progVars, drvVars, sf, pollCount>>

\* get_sensors: the body is the serialized registry, each registered
\* sensor with the value of its status cell.
GetSensors ==
    /\ response' = [served |-> TRUE, route |-> "/sensors.json",
                    body |-> <<>>, at |-> families,
                    values |-> [s \in registry |-> status[s]]]
    /\ families' = after_request(families)
    /\ UNCHANGED <<progVars, drvVars, sf, pollCount>>

MetricsInit ==
    /\ LibBase
    /\ sf = StateFileOpen(<<>>)
    /\ pollCount = PollCountNew("-", 1, 0, 0)
    /\ families = SensorMetricsNew
    /\ response = NoResponse
    /\ DrvIdle

MetricsNext ==
    \/ \E f \in Families : \E l \in FamilyLabels(f) : MetricRegister(f, l)
    \/ \E f \in Families : \E l \in FamilyLabels(f) : MetricRecord(f, l)
    \/ GetMetricsJson

SpecMetrics == MetricsInit /\ [][MetricsNext]_vars

\* C30 as claimed: the /metrics.json body has every family with a populated
\* metric, the particulate families included, with exactly the populated
\* labels as its entries.
C30_BodyHasEveryPopulatedFamily ==
    response.served =>
        \A f \in Families :
            response.at[f].rec # {} =>
                /\ f \in DOMAIN response.body
                /\ response.body[f] = response.at[f].rec

\* C30 as amended: the /metrics.json body has every family but the two
\* particulate ones, each with exactly its populated labels as entries (none
\* for a family without a populated metric), and it never has the
\* particulate concentration and particulate count families, populated or
\* not.
C30_BodyHasEveryFamilyButParticulates ==
    response.served =>
        /\ DOMAIN response.body = Families \ {"pm_conc", "pm_count"}
        /\ \A f \in DOMAIN response.body :
              response.body[f] = response.at[f].rec

\* C30 witness: a response given while a particulate concentration and a
\* temperature were populated: the temperature is in the body.
C30_Witness ==
    /\ response.served
    /\ response.at["pm_conc"].rec # {}
    /\ response.at["temp_c"].rec = {"SEN55"}
    /\ response.body["temp_c"] = {"SEN55"}

(***************************************************************************)
(* The HTTP handlers next to a running sensor task.                        *)
(***************************************************************************)
\* The daemon with the SGP30 alone, whose device can fail a call with
\* NoAcknowledge, and the HTTP server.
ServeInit ==
    /\ SupInit({{"SGP30"}}, {REGISTRY_SENSORS},
               [initial_ms : {1}, max_ms : {2}, max_init_attempts : {{}}],
               {{[i2c |-> "NoAcknowledge", reset |-> FALSE]}})
    /\ AdaptersIdle

ServeNext ==
    \/ Register("SGP30")
    \/ InitBegin("SGP30")
    \/ BusGrant("SGP30")
    \/ InitOk("SGP30")
    \/ \E e \in Errors : InitFail("SGP30", e)
    \/ PollBegin("SGP30")
    \/ PollOk("SGP30")
    \/ \E e \in Errors : PollFail("SGP30", e)
    \/ MetricRegister("tvoc_ppb", "SGP30")
    \/ MetricRecord("tvoc_ppb", "SGP30")
    \/ GetMetrics
    \/ GetMetricsJson
    \/ GetSensors

SpecServe == ServeInit /\ [][ServeNext]_vars

\* What the routes report of the program: the metrics, and the counters or
\* the status cells of the registered sensors.
Reported(route) ==
    IF route = "/sensors.json" THEN [s \in registry |-> status[s]]
    ELSE counter_values

\* C31: a step that answers GET /metrics, /metrics.json or /sensors.json
\* changes no metric, status, counter or other state of the sensor tasks,
\* and when the previous response was for the same route and the metrics,
\* counters and status cells are as that response found them, the new body
\* is identical to the previous one.
C31_HandlersChangeNothing ==
    [][response' # response =>
         /\ UNCHANGED <<progVars, sf, pollCount, families>>
         /\ (/\ response.served
             /\ response.route = response'.route
             /\ response.at = families
             /\ response.values = Reported(response.route))
            => (response'.body = response.body /\ response'.values = response.values)]_vars

\* C31 witness: a /metrics response that shows a recorded gauge and an
\* error counter of 2 while the sensor task is inside a bus transaction.
C31_Witness ==
    /\ response.served
    /\ response.route = "/metrics"
    /\ response.body["tvoc_ppb"] = {"SGP30"}
    /\ response.values = counter_values
    /\ errors["SGP30"] = 2
    /\ InTxn("SGP30")

(***************************************************************************)
(* The adapters' gauges (sensor/*.rs) and the capacities of the metric     *)
(* families (metrics.rs).                                                  *)
(***************************************************************************)
\* The number of adapters whose polls are followed.
MaxPollers == 2

\* enum SensorName.
SensorNames ==
    {"BME680", "ENS160", "PMSA003I", "SCD30", "SCD40", "SCD41", "SHT41", "SGP30",
     "SEN55"}

\* count_features!: the number of the listed features that are compiled in.
count_features(listed, features) == Cardinality(listed \cap features)

\* A TVOC capacity that counts the adapters registering a TVOC gauge, less one.
family_capacity_short(f, features) ==
    IF f = "tvoc_ppb" THEN count_features({"SGP30"}, features)
    ELSE count_features(SensorNames, features)

\* TEMP_METRICS .. SENSORS: the capacity of each family of SensorMetrics.
family_capacity(f, features) ==
    CASE f = "temp_c" ->
           count_features({"SCD30", "SCD40", "SCD41", "BME680", "SHT41", "SEN55"},
                          features)
      [] f = "co2_ppm" -> count_features({"SCD30", "SCD40", "SCD41"}, features)
      [] f = "eco2_ppm" -> count_features({"SGP30", "BME680", "ENS160"}, features)
      [] f \in {"rel_humidity_percent", "abs_humidity_grams_m3"} ->
           count_features({"BME680", "SCD40", "SCD41", "SCD30", "SHT41", "SEN55"},
                          features)
      [] f = "pressure_hpa" -> count_features({"BME680"}, features)
      [] f = "gas_resistance" -> count_features({"BME680"}, features)
      [] f = "tvoc_ppb" -> count_features({"SGP30", "BME680", "ENS160"}, features)
      [] f = "tvoc_iaq_index" -> count_features({"SEN55", "BME680", "SGP40"}, features)
      [] f = "nox_iaq_index" -> count_features({"SEN55"}, features)
      [] f = "pm_conc" -> count_features({"PMSA003I"}, features) * 3
                          + count_features({"SEN55"}, features) * 4
      [] f = "pm_count" -> count_features({"PMSA003I"}, features) * 6
      [] f \in {"sensor_errors", "sensor_reset_count"} ->
           count_features(SensorNames, features)

\* A diameter label that names the PMSA003I whichever adapter makes it.
diameter_of_pmsa003i(d, a) == [sensor |-> "PMSA003I", diameter |-> d]

\* `const fn diameter(diameter) -> DiameterLabel { diameter, sensor: NAME }`
\* of Pmsa003i::new and Sen55::new.
diameter(d, a) == [sensor |-> a, diameter |-> d]

\* The label `NAME` of the families labelled by SensorName.
name_label(a) == [sensor |-> a, diameter |-> "-"]

\* A label as the families hold it: the sensor name, or diameter and sensor.
metric_label(l) == IF l.diameter = "-" THEN l.sensor ELSE <<l.diameter, l.sensor>>

NamedGauges(a, fs) == {[family |-> f, label |-> name_label(a)] : f \in fs}
DiameterGauges(a, f, ds) == {[family |-> f, label |-> diameter(d, a)] : d \in ds}

\* The gauges that each adapter's `new` registers and keeps in its fields.
gauge_fields(a) ==
    CASE a = "BME680" ->
           NamedGauges(a, {"temp_c", "pressure_hpa", "rel_humidity_percent",
                           "abs_humidity_grams_m3", "gas_resistance"})
      [] a = "ENS160" -> NamedGauges(a, {"tvoc_ppb", "eco2_ppm"})
      [] a = "PMSA003I" ->
           DiameterGauges(a, "pm_conc", {"2.5", "1.0", "10.0"})
           \cup DiameterGauges(a, "pm_count",
                               {"0.3", "0.5", "1.0", "2.5", "5.0", "10.0"})
      [] a \in {"SCD30", "SCD40", "SCD41"} ->
           NamedGauges(a, {"temp_c", "rel_humidity_percent",
                           "abs_humidity_grams_m3", "co2_ppm"})
      [] a = "SEN55" ->
           NamedGauges(a, {"rel_humidity_percent", "abs_humidity_grams_m3",
                           "temp_c", "nox_iaq_index", "tvoc_iaq_index"})
           \cup DiameterGauges(a, "pm_conc", {"1.0", "2.5", "4.0", "10.0"})
      [] a = "SGP30" -> NamedGauges(a, {"tvoc_ppb", "eco2_ppm"})
      [] a = "SHT41" ->
           NamedGauges(a, {"temp_c", "rel_humidity_percent",
                           "abs_humidity_grams_m3"})

\* The families that an adapter keeps a reference to and takes mean() of.
family_refs(a) ==
    CASE a = "SGP30" -> {"abs_humidity_grams_m3"}
      [] a \in {"SCD30", "SCD40", "SCD41"} -> {"pressure_hpa"}
      [] a = "ENS160" -> {"temp_c", "rel_humidity_percent"}
      [] OTHER -> {}

\* The gauges that a poll sets only at the absolute-humidity stride, or when
\* the BME680's gas reading is valid.
sometimes_set(a) ==
    {g \in gauge_fields(a) : g.family \in {"abs_humidity_grams_m3", "gas_resistance"}}

\* The labels of a set of gauges in one family.
LabelsIn(gs, f) == {metric_label(g.label) : g \in {h \in gs : h.family = f}}

\* GaugeFamily::register for each gauge of an adapter, and the supervisor's
\* two counters: a family takes the labels that it has room for.
registered(m, a, features) ==
    [f \in Families |->
       LET wanted == IF f \in {"sensor_errors", "sensor_reset_count"}
                       THEN {a} ELSE LabelsIn(gauge_fields(a), f)
       IN IF Cardinality(m[f].reg \cup wanted) <= family_capacity(f, features)
            THEN [m[f] EXCEPT !.reg = @ \cup wanted]
            ELSE m[f]]

\* Whether every register call of the adapter's `new` and of its
\* supervisor's start found room.
all_registered(m, a, features) ==
    \A f \in Families :
       LET wanted == IF f \in {"sensor_errors", "sensor_reset_count"}
                       THEN {a} ELSE LabelsIn(gauge_fields(a), f)
       IN wanted \subseteq registered(m, a, features)[f].reg

\* A sensor task starts: the adapter's `new` registers its gauges
\* (`.register(..).unwrap()`), then run_sensor registers the two counters.
TaskStart(a) ==
    /\ a \in gauges.features \ (gauges.built \cup gauges.failed)
    /\ families' = registered(families, a, gauges.features)
    /\ gauges' = IF all_registered(families, a, gauges.features)
                   THEN [gauges EXCEPT !.built = @ \cup {a}]
                   ELSE [gauges EXCEPT !.failed = @ \cup {a}]
    /\ UNCHANGED <<progVars, sf, pollCount, response, ens, bme, sensorName, packet,
                   counter>>

\* A poll that reads its device: mean() of the families it refers to, then
\* set_value on its own gauge fields, those set on every poll and, if
\* `every`, those set on some polls.
AdapterPoll(a, every) ==
    LET set == IF every THEN gauge_fields(a)
               ELSE gauge_fields(a) \ sometimes_set(a)
        polled == {w.by : w \in gauges.writes}
    IN /\ a \in gauges.built
       /\ every \/ sometimes_set(a) # {}
       /\ a \in polled \/ Cardinality(polled) < MaxPollers
       /\ gauges' = [gauges EXCEPT
                       !.reads = @ \cup {<<a, f>> : f \in family_refs(a)},
                       !.writes = @ \cup {[by |-> a, family |-> g.family,
                                           label |-> g.label] : g \in set}]
       /\ families' = [f \in Families |->
                         [families[f] EXCEPT !.rec = @ \cup LabelsIn(set, f)]]
       /\ UNCHANGED <<progVars, sf, pollCount, response, ens, bme, sensorName,
                      packet, counter>>

\* A build with every sensor compiled in, or with a few, all of them enabled.
GaugesInit ==
    /\ LibBase
    /\ sf = StateFileOpen(<<>>)
    /\ pollCount = PollCountNew("-", 1, 0, 0)
    /\ families = SensorMetricsNew
    /\ response = NoResponse
    /\ gauges \in {[GaugesNew EXCEPT !.features = fs] :
                     fs \in {SensorNames, {"SGP30", "BME680"}, {"SEN55", "SCD41"}}}
    /\ ens = Ens160New
    /\ bme = Bme680New
    /\ sensorName = NoSensorName
    /\ packet = NoPacket
    /\ counter = NoCounter

GaugesNext ==
    \/ \E a \in SensorNames : TaskStart(a)
    \/ \E a \in SensorNames, every \in BOOLEAN : AdapterPoll(a, every)

SpecGauges == GaugesInit /\ [][GaugesNext]_vars

\* C32: every gauge that an adapter's poll has written is registered, under
\* a label that names that adapter, in a family that the adapter does not
\* read for compensation; the compensation families (abs_humidity for the
\* SGP30, pressure for the SCD adapters, temperature and relative humidity
\* for the ENS160) are read through mean(), and the reading adapter holds
\* no gauge in them.
C32_GaugesUnderOwnIdentity ==
    /\ \A w \in gauges.writes :
         /\ w.label.sensor = w.by
         /\ metric_label(w.label) \in families[w.family].reg
         /\ w.family \notin family_refs(w.by)
    /\ \A r \in gauges.reads :
         /\ r[2] \in family_refs(r[1])
         /\ \A g \in gauge_fields(r[1]) : g.family # r[2]
         /\ r[1] = "SGP30" => r[2] = "abs_humidity_grams_m3"
         /\ r[1] \in {"SCD30", "SCD40", "SCD41"} => r[2] = "pressure_hpa"
         /\ r[1] = "ENS160" => r[2] \in {"temp_c", "rel_humidity_percent"}

\* C32 witness: the SGP30 and the SCD41 have polled and written their
\* gauges, the SGP30 has read the absolute-humidity family while the
\* SCD41's value is in it, and the SEN55 and the PMSA003I hold their gauges.
C32_Witness ==
    /\ \A a \in {"SGP30", "SCD41"} : \E w \in gauges.writes : w.by = a
    /\ <<"SGP30", "abs_humidity_grams_m3">> \in gauges.reads
    /\ <<"SCD41", "pressure_hpa">> \in gauges.reads
    /\ "SCD41" \in families["abs_humidity_grams_m3"].rec
    /\ <<"4.0", "SEN55">> \in families["pm_conc"].reg
    /\ <<"2.5", "PMSA003I">> \in families["pm_conc"].reg


\* C33 as claimed: no register call of a task's start fails, and once every
\* compiled-in sensor has started, each family holds exactly as many labels
\* as its capacity: no slot stays unused.
C33_CapacityIsRegisteredCount ==
    /\ gauges.failed = {}
    /\ gauges.built = gauges.features =>
         \A f \in Families :
            Cardinality(families[f].reg) = family_capacity(f, gauges.features)

\* C33: no register call of a task's start fails and no family holds more
\* labels than its capacity; once every compiled-in sensor has started,
\* every family is full except eco2_ppm, tvoc_ppb and tvoc_iaq_index, each of
\* which keeps one slot unused when the BME680 is compiled in.
C33_CapacityCoversRegistered ==
    /\ gauges.failed = {}
    /\ \A f \in Families :
         Cardinality(families[f].reg) <= family_capacity(f, gauges.features)
    /\ gauges.built = gauges.features =>
         \A f \in Families :
            family_capacity(f, gauges.features) - Cardinality(families[f].reg)
              = IF f \in {"eco2_ppm", "tvoc_ppb", "tvoc_iaq_index"}
                  THEN count_features({"BME680"}, gauges.features)
                  ELSE 0

\* C33 witness: all nine sensors are compiled in and have started; the
\* temperature family is full with six labels, the particulate
\* concentration family with seven, and eco2_ppm holds two labels of three.
C33_Witness ==
    /\ gauges.features = SensorNames
    /\ gauges.built = SensorNames
    /\ Cardinality(families["temp_c"].reg) = 6
    /\ Cardinality(families["pm_conc"].reg) = 7
    /\ Cardinality(families["sensor_errors"].reg) = 9
    /\ Cardinality(families["eco2_ppm"].reg) = 2
    /\ family_capacity("eco2_ppm", gauges.features) = 3

(***************************************************************************)
(* The ENS160 adapter (sensor/ens160.rs) under its supervisor: the status  *)
(* loop of init and the compensation that poll sends.                      *)
(***************************************************************************)
MaxWarmups == 2

ENS160 == "ENS160"

\* What the adapter's calls leave alone.
ensFrame == <<sgp, scd, sf, pollCount, response, gauges, bme, sensorName, packet,
              counter>>

\* Means of the temperature and relative-humidity families, in thousandths
\* of a degree and of a percent.
TempMeans == {25500, 21299, -5250}
RhMeans == {40000, 55129}

\* f64::trunc and f64::fract of a mean given in thousandths.
trunc(m) == IF m >= 0 THEN m \div 1000 ELSE -((-m) \div 1000)
fract(m) == m - trunc(m) * 1000

\* `(x * 100.0) as i16` of a fraction given in thousandths: the cast drops
\* what is left below a hundredth.
as_i16_hundredths(f) == IF f >= 0 THEN (f * 100) \div 1000 ELSE -((-f * 100) \div 1000)

\* `avg.trunc() as i16 * 100 + (avg.fract() * 100.0) as i16`.
scaled(m) == trunc(m) * 100 + as_i16_hundredths(fract(m))

\* The device after ens160::Ens160::set_temp(v): v is in TEMP_IN.
set_temp(dev, v) == [dev EXCEPT !.temp_in = {v}]

\* Ens160Error::I2c(e) and Ens160Error::Invalid as the supervisor sees them.
Ens160I2c == [i2c |-> "NoAcknowledge", reset |-> FALSE]
Ens160Invalid == [i2c |-> None, reset |-> FALSE]

\* Ens160::init fails before the status loop: part_id, firmware_version or
\* operational returns an I2C error.
Ens160InitEarlyFail ==
    /\ ens.warmup + ens.setup = 0
    /\ OnInitErr(ENS160, Ens160I2c)
    /\ UNCHANGED <<ens, families, ensFrame>>

\* One pass of init's loop: self.sensor.status() returns `read`, an error
\* or a validity flag.
Ens160InitStatus(read) ==
    LET seen == [ens EXCEPT !.last = IF read = "Err" THEN "Err" ELSE "Flag",
                            !.tick = 1 - @,
                            !.poll = Ens160New.poll]
        fresh == [seen EXCEPT !.warmup = 0, !.setup = 0]
    IN /\ pc[ENS160] = "init_txn"
       /\ UNCHANGED <<families, ensFrame>>
       /\ CASE read = "NormalOperation" ->
              /\ OnInitOk(ENS160)
              /\ ens' = fresh
         [] read = "WarmupPhase" ->
              /\ ens.warmup + ens.setup < MaxWarmups
              /\ OnAdapterContinue(ENS160)
              /\ ens' = [seen EXCEPT !.warmup = @ + 1]
         [] read = "InitStartupPhase" ->
              /\ ens.warmup + ens.setup < MaxWarmups
              /\ OnAdapterContinue(ENS160)
              /\ ens' = [seen EXCEPT !.setup = @ + 1]
         [] read = "InvalidOutput" ->
              /\ OnInitErr(ENS160, Ens160Invalid)
              /\ ens' = fresh
         [] read = "Err" ->
              IF ens.warmup + ens.setup > 0
                THEN /\ OnAdapterContinue(ENS160)
                     /\ ens' = seen
                ELSE /\ OnInitErr(ENS160, Ens160I2c)
                     /\ ens' = fresh

\* Ens160::poll.  The means are temp.mean() and rel_humidity.mean(); `upto`
\* is the device call at which an I2C error ends the poll ("-" for none) and
\* `validity` the flag of the status read.
Ens160Poll(temp, rh, upto, validity) ==
    LET dev1 == IF temp # {} /\ upto # "set_temp"
                  THEN set_temp(ens, scaled(CHOOSE m \in temp : TRUE)) ELSE ens
        dev2 == IF rh # {} /\ upto \notin {"set_temp", "set_rh"}
                  THEN set_temp(dev1, scaled(CHOOSE m \in rh : TRUE)) ELSE dev1
        past == upto \notin {"set_temp", "set_rh"}
        after == [dev2 EXCEPT !.poll = [temp |-> temp, rh |-> rh,
                                        compensated |-> past],
                              !.last = "-", !.tick = 0]
        reads == past /\ upto # "status" /\ validity = "NormalOperation"
        set == IF ~reads \/ upto = "tvoc" THEN {}
               ELSE IF upto = "eco2" THEN {"tvoc_ppb"}
               ELSE {"tvoc_ppb", "eco2_ppm"}
    IN /\ upto = "set_temp" => temp # {}
       /\ upto = "set_rh" => rh # {}
       /\ upto \in {"tvoc", "eco2"} => validity = "NormalOperation"
       /\ upto \in {"set_temp", "set_rh", "status"} => validity = "NormalOperation"
       /\ ens' = after
       /\ families' = [f \in Families |->
                         IF f \in set THEN [families[f] EXCEPT !.rec = @ \cup {ENS160}]
                         ELSE families[f]]
       /\ IF upto # "-" THEN OnPollErr(ENS160, Ens160I2c)
          ELSE IF validity = "InvalidOutput" THEN OnPollErr(ENS160, Ens160Invalid)
          ELSE OnPollOk(ENS160)
       /\ UNCHANGED ensFrame

\* The daemon with the ENS160 alone, no limit on init attempts.
Ens160Init ==
    /\ SupInit({{ENS160}}, {REGISTRY_SENSORS},
               [initial_ms : {1}, max_ms : {2}, max_init_attempts : {{}}], {{}})
    /\ AdaptersIdle

Validities == {"NormalOperation", "WarmupPhase", "InitStartupPhase", "InvalidOutput"}

Ens160Next ==
    \/ Register(ENS160)
    \/ InitBegin(ENS160)
    \/ BusGrant(ENS160)
    \/ PollBegin(ENS160)
    \/ Ens160InitEarlyFail
    \/ \E read \in Validities \cup {"Err"} : Ens160InitStatus(read)
    \/ \E temp \in {{}} \cup {{m} : m \in TempMeans},
          rh \in {{}} \cup {{m} : m \in RhMeans},
          upto \in {"-", "set_temp", "set_rh", "status", "tvoc", "eco2"},
          validity \in Validities : Ens160Poll(temp, rh, upto, validity)

SpecEns160 == Ens160Init /\ [][Ens160Next]_vars

\* C34 as claimed: after an ENS160 poll that saw both means and sent the
\* compensation, the device's temperature compensation holds the scaled
\* mean temperature and its humidity compensation the scaled mean relative
\* humidity.
C34_BothCompensationsSet ==
    (ens.poll.compensated /\ ens.poll.temp # {} /\ ens.poll.rh # {}) =>
        /\ ens.temp_in = {scaled(m) : m \in ens.poll.temp}
        /\ ens.rh_in = {scaled(m) : m \in ens.poll.rh}


\* C38 as claimed: every I2C error that a read of the device status returns
\* during ENS160 init makes init return: the supervisor counts an error and
\* writes an error status, and the init call is over.
C38_StatusErrorEndsInit ==
    [][(ens'.tick # ens.tick /\ ens'.last = "Err") =>
          /\ errors'[ENS160] = errors[ENS160] + 1
          /\ status'[ENS160] \in ErrorStatuses
          /\ ~InInitCall(ENS160)']_vars

(***************************************************************************)
(* SensorName (eclss-api): FromStr and Display as strum derives them.      *)
(***************************************************************************)
\* The variants of SensorName, each by the characters of its identifier.
Variants ==
    {<<"B", "m", "e", "6", "8", "0">>,
     <<"E", "n", "s", "1", "6", "0">>,
     <<"P", "m", "s", "a", "0", "0", "3", "i">>,
     <<"S", "c", "d", "3", "0">>,
     <<"S", "c", "d", "4", "0">>,
     <<"S", "c", "d", "4", "1">>,
     <<"S", "h", "t", "4", "1">>,
     <<"S", "g", "p", "3", "0">>,
     <<"S", "e", "n", "5", "5">>}

\* The table SENSOR_KINDS of the tests: the uppercase name of each variant.
SENSOR_KINDS ==
    {<<<<"B", "M", "E", "6", "8", "0">>, <<"B", "m", "e", "6", "8", "0">>>>,
     <<<<"E", "N", "S", "1", "6", "0">>, <<"E", "n", "s", "1", "6", "0">>>>,
     <<<<"P", "M", "S", "A", "0", "0", "3", "I">>, <<"P", "m", "s", "a", "0", "0", "3", "i">>>>,
     <<<<"S", "C", "D", "3", "0">>, <<"S", "c", "d", "3", "0">>>>,
     <<<<"S", "C", "D", "4", "0">>, <<"S", "c", "d", "4", "0">>>>,
     <<<<"S", "C", "D", "4", "1">>, <<"S", "c", "d", "4", "1">>>>,
     <<<<"S", "H", "T", "4", "1">>, <<"S", "h", "t", "4", "1">>>>,
     <<<<"S", "G", "P", "3", "0">>, <<"S", "g", "p", "3", "0">>>>,
     <<<<"S", "E", "N", "5", "5">>, <<"S", "e", "n", "5", "5">>>>}

\* char::to_ascii_uppercase and char::to_ascii_lowercase, for the letters
\* that occur in the names.
to_ascii_uppercase(c) ==
    CASE
         c = "a" -> "A"
      [] c = "b" -> "B"
      [] c = "c" -> "C"
      [] c = "d" -> "D"
      [] c = "e" -> "E"
      [] c = "g" -> "G"
      [] c = "h" -> "H"
      [] c = "i" -> "I"
      [] c = "m" -> "M"
      [] c = "n" -> "N"
      [] c = "p" -> "P"
      [] c = "s" -> "S"
      [] c = "t" -> "T"
      [] OTHER -> c

to_ascii_lowercase(c) ==
    CASE
         c = "A" -> "a"
      [] c = "B" -> "b"
      [] c = "C" -> "c"
      [] c = "D" -> "d"
      [] c = "E" -> "e"
      [] c = "G" -> "g"
      [] c = "H" -> "h"
      [] c = "I" -> "i"
      [] c = "M" -> "m"
      [] c = "N" -> "n"
      [] c = "P" -> "p"
      [] c = "S" -> "s"
      [] c = "T" -> "t"
      [] OTHER -> c

\* #[strum(serialize_all = "UPPERCASE")]: the text of a variant is its
\* identifier in upper case.
serialize(v) == [i \in 1..Len(v) |-> to_ascii_uppercase(v[i])]

\* A comparison of texts that tells the cases apart.
eq_exact(a, b) == a = b

\* #[strum(ascii_case_insensitive)]: str::eq_ignore_ascii_case.
eq_ignore_ascii_case(a, b) ==
    /\ Len(a) = Len(b)
    /\ \A i \in 1..Len(a) : to_ascii_lowercase(a[i]) = to_ascii_lowercase(b[i])

\* <SensorName as FromStr>::from_str: the variant whose text matches, if any.
from_str_name(text) == {v \in Variants : eq_ignore_ascii_case(text, serialize(v))}

\* <SensorName as Display>::fmt: the text of the variant.
to_string(v) == serialize(v)

\* str::to_ascii_lowercase.
lowercase(text) == [i \in 1..Len(text) |-> to_ascii_lowercase(text[i])]

\* A text with its first k characters in lower case.
LowerPrefix(text, k) ==
    [i \in 1..Len(text) |-> IF i <= k THEN to_ascii_lowercase(text[i]) ELSE text[i]]

\* A text with its k-th character in lower case.
LowerAt(text, k) ==
    [i \in 1..Len(text) |-> IF i = k THEN to_ascii_lowercase(text[i]) ELSE text[i]]

\* The texts that are parsed: every name of the table with any prefix or any
\* one character of it in lower case, the identifiers, and texts that are no
\* name.
NameTexts ==
    {LowerPrefix(kind[1], k) : kind \in SENSOR_KINDS, k \in 0..8}
    \cup {LowerAt(kind[1], k) : kind \in SENSOR_KINDS, k \in 1..8}
    \cup Variants
    \cup {<<>>, <<"S", "C", "D", "4">>, <<"S", "C", "D", "4", "2">>,
          <<"B", "M", "E", "6", "8", "O">>, <<"S", "G", "P", "3", "0", " ">>}

\* text.parse::<SensorName>().
NameParse(text) ==
    /\ sensorName.op \in {"-", "parse", "reparse"}
    /\ sensorName' = [op |-> "parse", text |-> text, parsed |-> from_str_name(text),
                      of |-> {}, shown |-> <<>>]
    /\ UNCHANGED <<progVars, sf, pollCount, families, response, gauges, ens, bme,
                   packet, counter>>

\* name.to_string() of the name that was parsed.
NameDisplay ==
    /\ sensorName.op = "parse"
    /\ sensorName.parsed # {}
    /\ sensorName' = [sensorName EXCEPT
                        !.op = "display",
                        !.of = sensorName.parsed,
                        !.shown = to_string(CHOOSE v \in sensorName.parsed : TRUE)]
    /\ UNCHANGED <<progVars, sf, pollCount, families, response, gauges, ens, bme,
                   packet, counter>>

\* The displayed text parsed again.
NameReparse ==
    /\ sensorName.op = "display"
    /\ sensorName' = [sensorName EXCEPT
                        !.op = "reparse",
                        !.text = sensorName.shown,
                        !.parsed = from_str_name(sensorName.shown)]
    /\ UNCHANGED <<progVars, sf, pollCount, families, response, gauges, ens, bme,
                   packet, counter>>

NamesInit ==
    /\ LibBase
    /\ sf = StateFileOpen(<<>>)
    /\ pollCount = PollCountNew("-", 1, 0, 0)
    /\ families = SensorMetricsNew
    /\ response = NoResponse
    /\ DrvIdle

NamesNext ==
    \/ \E text \in NameTexts : NameParse(text)
    \/ NameDisplay
    \/ NameReparse

SpecNames == NamesInit /\ [][NamesNext]_vars

\* C35: for each of the nine sensor identities, parsing its uppercase name
\* and parsing its lowercase name yield that identity alone, displaying the
\* identity yields the uppercase name, and parsing the displayed text yields
\* the identity that was displayed.
C35_ParseDisplayRoundTrip ==
    /\ Cardinality(SENSOR_KINDS) = 9
    /\ \A kind \in SENSOR_KINDS :
         /\ (sensorName.op = "parse"
              /\ sensorName.text \in {kind[1], lowercase(kind[1])})
            => sensorName.parsed = {kind[2]}
         /\ (sensorName.op = "display" /\ sensorName.of = {kind[2]})
            => sensorName.shown = kind[1]
    /\ sensorName.op = "reparse" => sensorName.parsed = sensorName.of

\* C35 witness: the lowercase text pmsa003i was parsed to Pmsa003i, which
\* was displayed as PMSA003I and parsed again.
C35_Witness ==
    /\ sensorName.op = "reparse"
    /\ sensorName.of = {<<"P", "m", "s", "a", "0", "0", "3", "i">>}
    /\ sensorName.text = <<"P", "M", "S", "A", "0", "0", "3", "I">>
    /\ sensorName.parsed = {<<"P", "m", "s", "a", "0", "0", "3", "i">>}


(***************************************************************************)
(* The SGP30's gauges during calibration and on a saturated reading.       *)
(***************************************************************************)
\* A step in which an SGP30 poll that read a measurement returns.
Sgp30MeasuredPollReturns ==
    /\ pc[SGP30] = "poll_txn"
    /\ pc'[SGP30] # "poll_txn"
    /\ sgp'.reading # {}

\* C36: a poll that is one of the first 16 to reach the measurement since
\* the adapter was constructed leaves the gauges as they were and returns
\* success, whatever it read, 60000 ppb included: the status becomes Up, no
\* error is counted and no reset follows.  A later poll that reads 60000 ppb
\* leaves the gauges as they were too, and a later poll that reads another
\* value publishes it.  The published TVOC value is never 60000.
C36_NoGaugeUpdateInCalibrationOrSaturated ==
    /\ [](sgp.tvoc # {MAX_TVOC})
    /\ [][Sgp30MeasuredPollReturns =>
            IF sgp.measured < 16
              THEN /\ sgp'.tvoc = sgp.tvoc
                   /\ status'[SGP30] = "Up"
                   /\ errors'[SGP30] = errors[SGP30]
                   /\ pc'[SGP30] = "poll_sleep"
              ELSE IF sgp'.reading = {MAX_TVOC}
                THEN sgp'.tvoc = sgp.tvoc
                ELSE sgp'.tvoc = sgp'.reading]_vars

\* C36 witness: the sixteenth measured poll has read 60000 ppb and returned
\* success: the sensor is Up with no value published.
C36_Witness ==
    /\ sgp.measured = 16
    /\ sgp.reading = {MAX_TVOC}
    /\ sgp.tvoc = {}
    /\ calls[SGP30].last = "poll_ok"
    /\ status[SGP30] = "Up"


(***************************************************************************)
(* The BME680 adapter's poll (sensor/bme680.rs) under its supervisor:      *)
(* measurements that time out.                                             *)
(***************************************************************************)
MaxBmePolls == 2

BME680 == "BME680"

\* What the adapter's calls leave alone.
bmeFrame == <<sgp, scd, sf, pollCount, response, gauges, ens, sensorName, packet,
              counter>>

\* A poll that retries one more timed-out measurement.
retries_timeout_more(timeouts) == timeouts < 6

\* `Err(BmeError::MeasuringTimeOut) if timeouts < 5`.
retries_timeout(timeouts) == timeouts < 5

\* bosch_bme680's errors as the supervisor sees them: WriteError and
\* WriteReadError carry an I2C error, the others none.
Bme680Errors == {[i2c |-> "NoAcknowledge", reset |-> FALSE],
                 [i2c |-> None, reset |-> FALSE]}

\* The gauges that a poll sets of a measurement: pressure, temperature and
\* relative humidity, the gas resistance if the measurement has one, the
\* absolute humidity if should_calc_abs_humidity().
bme680_gauges(gas, abs) ==
    {"pressure_hpa", "temp_c", "rel_humidity_percent"}
    \cup (IF gas THEN {"gas_resistance"} ELSE {})
    \cup (IF abs THEN {"abs_humidity_grams_m3"} ELSE {})

\* One pass of poll's loop with measure() returning data: the poll is
\* counted, the gauges are set and poll returns Ok.
Bme680Measured(gas, abs) ==
    /\ bme.polls < MaxBmePolls
    /\ OnPollOk(BME680)
    /\ bme' = [timeouts |-> 0, polls |-> bme.polls + 1, outcome |-> "Ok"]
    /\ families' = [f \in Families |->
                      IF f \in bme680_gauges(gas, abs)
                        THEN [families[f] EXCEPT !.rec = @ \cup {BME680}]
                        ELSE families[f]]
    /\ UNCHANGED <<ens, bmeFrame>>

\* One pass of poll's loop with measure() returning MeasuringTimeOut: the
\* loop goes round again, or poll gives up and returns Ok.
Bme680TimedOut ==
    /\ pc[BME680] = "poll_txn"
    /\ IF retries_timeout(bme.timeouts)
         THEN /\ OnAdapterContinue(BME680)
              /\ bme' = [bme EXCEPT !.timeouts = @ + 1,
                                    !.outcome = "MeasuringTimeOut"]
         ELSE /\ OnPollOk(BME680)
              /\ bme' = [bme EXCEPT !.timeouts = 0, !.outcome = "MeasuringTimeOut"]
    /\ UNCHANGED <<families, ens, bmeFrame>>

\* One pass of poll's loop with measure() returning another error: poll
\* returns it.
Bme680MeasureFailed(e) ==
    /\ OnPollErr(BME680, e)
    /\ bme' = [bme EXCEPT !.timeouts = 0, !.outcome = "Err"]
    /\ UNCHANGED <<families, ens, bmeFrame>>

\* The daemon with the BME680 alone, no limit on init attempts.
Bme680Init ==
    /\ SupInit({{BME680}}, {REGISTRY_SENSORS},
               [initial_ms : {1}, max_ms : {2}, max_init_attempts : {{}}],
               {Bme680Errors})
    /\ AdaptersIdle

Bme680Next ==
    \/ Register(BME680)
    \/ InitBegin(BME680)
    \/ BusGrant(BME680)
    \/ InitOk(BME680)
    \/ \E e \in Bme680Errors : InitFail(BME680, e)
    \/ PollBegin(BME680)
    \/ \E gas, abs \in BOOLEAN : Bme680Measured(gas, abs)
    \/ Bme680TimedOut
    \/ \E e \in Bme680Errors : Bme680MeasureFailed(e)

SpecBme680 == Bme680Init /\ [][Bme680Next]_vars

\* C37: a BME680 poll never counts more than 5 timed-out measurements.  On
\* each of the first five consecutive timeouts the poll call goes on: it asks
\* for the bus again, and the status, the error counter, the backoff, the
\* gauges and the poll counter stay as they are.  On the sixth the call
\* returns success: the gauges and the poll counter stay as they are, no
\* error is counted, the backoff is not touched, the supervisor writes Up
\* and sleeps the poll interval.
C37_SixthTimeoutReturnsOk ==
    /\ [](bme.timeouts <= 5)
    /\ [][(bme' # bme /\ bme'.outcome = "MeasuringTimeOut") =>
            /\ families' = families
            /\ bme'.polls = bme.polls
            /\ errors' = errors
            /\ exp' = exp
            /\ IF bme.timeouts < 5
                 THEN /\ pc'[BME680] = "poll_lock"
                      /\ status' = status
                      /\ bme'.timeouts = bme.timeouts + 1
                 ELSE /\ pc'[BME680] = "poll_sleep"
                      /\ status'[BME680] = "Up"]_vars

\* C37 witness: after a poll that failed, a poll has given up on its sixth
\* timeout: the status is Up although no poll was ever counted and no gauge
\* has a value, with one error counted and the backoff as that error left it.
C37_Witness ==
    /\ bme.outcome = "MeasuringTimeOut"
    /\ bme.timeouts = 0
    /\ pc[BME680] = "poll_sleep"
    /\ calls[BME680].last = "poll_ok"
    /\ status[BME680] = "Up"
    /\ bme.polls = 0
    /\ \A f \in Families : families[f].rec = {}
    /\ errors[BME680] = 1
    /\ exp[BME680] = 2

\* ---------------------------------------------------------------------
\* Config::poll_counter and PollCount
\* ---------------------------------------------------------------------
\* Durations are in milliseconds.  `counter.state` is "idle" before an
\* adapter's `new` calls poll_counter, "loop" inside poll_counter's while
\* loop, "built" once the PollCount is returned and "panicked" after a
\* remainder with a divisor of zero.  History: the last question asked of the
\* PollCount (`asked`) and its answer.

counterFrame ==
    <<progVars, sf, pollCount, families, response, gauges, ens, bme, sensorName,
      packet>>

\* Config::abs_humidity_interval is a u32 given on the command line.
AbsHumidityIntervals == 0 .. MaxStride

\* Config::log_reading_interval is a Duration parsed by humantime; "0s" is
\* one, and 30 s is the default.
LogReadingIntervals == {0, 1000, 2500, 30000}

\* The POLL_INTERVAL of the adapters: SGP30; SEN55 and SHT41; BME680, ENS160,
\* PMSA003I and SCD30; SCD40 and SCD41.
PollIntervals == {943, 1000, 2000, 5000}

\* Duration::saturating_sub
saturating_sub(a, b) == IF a > b THEN a - b ELSE 0

\* poll_counter is entered: interval = self.log_reading_interval, i = 0.
PollCounterCall(abs, log, every) ==
    /\ counter.state = "idle"
    /\ counter' = [NoCounter EXCEPT !.state = "loop",
                                    !.abs_humidity_interval = abs,
                                    !.log_reading_interval = log,
                                    !.poll_interval = every,
                                    !.interval = log]
    /\ UNCHANGED counterFrame

\* One pass of `while !interval.is_zero()`.
PollCounterLoop ==
    /\ counter.state = "loop"
    /\ counter.interval # 0
    /\ counter' = [counter EXCEPT
           !.interval = saturating_sub(@, counter.poll_interval),
           !.i = @ + 1]
    /\ UNCHANGED counterFrame

\* The loop is left and the PollCount returned with polls = 0.
PollCounterReturn ==
    /\ counter.state = "loop"
    /\ counter.interval = 0
    /\ counter' = [counter EXCEPT !.state = "built",
                                  !.log_info_interval = counter.i,
                                  !.polls = 0]
    /\ UNCHANGED counterFrame

\* PollCount::add
PollCountAdd ==
    /\ counter.state = "built"
    /\ counter.polls < MaxPolls
    /\ counter' = [counter EXCEPT !.polls = @ + 1, !.asked = "add", !.answer = {}]
    /\ UNCHANGED counterFrame

\* self.polls.0 % divisor == 0; the remainder panics on a zero divisor.
remainder_is_zero(c, question, divisor) ==
    IF divisor = 0
    THEN [c EXCEPT !.state = "panicked", !.asked = question, !.answer = {}]
    ELSE [c EXCEPT !.asked = question, !.answer = {c.polls % divisor = 0}]

\* PollCount::should_calc_abs_humidity
ShouldCalcAbsHumidity ==
    /\ counter.state = "built"
    /\ counter' = remainder_is_zero(counter, "should_calc_abs_humidity",
                                    counter.abs_humidity_interval)
    /\ UNCHANGED counterFrame

\* PollCount::should_log_info
ShouldLogInfo ==
    /\ counter.state = "built"
    /\ counter' = remainder_is_zero(counter, "should_log_info",
                                    counter.log_info_interval)
    /\ UNCHANGED counterFrame

CounterInit ==
    /\ LibBase
    /\ sf = StateFileOpen(<<>>)
    /\ pollCount = PollCountNew("-", 1, 0, 0)
    /\ families = SensorMetricsNew
    /\ response = NoResponse
    /\ DrvIdle

CounterNext ==
    \/ \E abs \in AbsHumidityIntervals, log \in LogReadingIntervals,
          every \in PollIntervals : PollCounterCall(abs, log, every)
    \/ PollCounterLoop
    \/ PollCounterReturn
    \/ PollCountAdd
    \/ ShouldCalcAbsHumidity
    \/ ShouldLogInfo

SpecCounter == CounterInit /\ [][CounterNext]_vars

\* C39: every PollCount that poll_counter returns has a log interval of at
\* least 1 and an absolute-humidity stride of at least 1, and no question
\* asked of it ends in a division by zero.
C39_IntervalsAtLeastOne ==
    /\ counter.state = "built" =>
           /\ counter.log_info_interval >= 1
           /\ counter.abs_humidity_interval >= 1
    /\ counter.state # "panicked"

\* ---------------------------------------------------------------------
\* The PMSA003I driver: Reading::from_bytes
\* ---------------------------------------------------------------------
\* A packet is a function from the offsets 0 .. PACKET_LEN - 1 to bytes.
\* `packet.state` names the call that decoded `packet.bytes` last and
\* `packet.result` is what it returned.

MAGIC == 16973
PACKET_LEN == 32

packetFrame ==
    <<progVars, sf, pollCount, families, response, gauges, ens, bme, sensorName,
      counter>>

\* words![offset]: u16::from_be_bytes([bytes[offset], bytes[offset + 1]])
words(bytes, offset) == bytes[offset] * 256 + bytes[offset + 1]

\* bytes[0..n].iter().map(|&byte| byte as u16).sum()
RECURSIVE byte_sum(_, _)
byte_sum(bytes, n) ==
    IF n = 0 THEN 0 ELSE (byte_sum(bytes, n - 1) + bytes[n - 1]) % 65536

\* The Reading decoded from a packet.
reading_of(bytes) ==
    [concentrations |->
         [pm1_0_standard |-> words(bytes, 4), pm2_5_standard |-> words(bytes, 6),
          pm10_0_standard |-> words(bytes, 8), pm1_0 |-> words(bytes, 10),
          pm2_5 |-> words(bytes, 12), pm10_0 |-> words(bytes, 14)],
     counts |->
         [particles_0_3um |-> words(bytes, 16), particles_0_5um |-> words(bytes, 18),
          particles_1_0um |-> words(bytes, 20), particles_2_5um |-> words(bytes, 22),
          particles_5_0um |-> words(bytes, 24), particles_10_0um |-> words(bytes, 26)],
     sensor_version |-> bytes[28]]

\* Reading::from_bytes
from_bytes(bytes) ==
    LET magic == words(bytes, 0)
        sum == byte_sum(bytes, PACKET_LEN - 2)
        checksum == words(bytes, PACKET_LEN - 2)
    IN  IF magic # MAGIC
        THEN [kind |-> "BadMagic", magic |-> magic]
        ELSE IF words(bytes, 29) # 0
        THEN [kind |-> "ErrorCode", code |-> bytes[27]]
        ELSE IF sum # checksum
        THEN [kind |-> "Checksum", sum |-> sum, checksum |-> checksum]
        ELSE [kind |-> "Ok", reading |-> reading_of(bytes)]

\* The packets put on the bus: the second magic byte, the low bytes of the
\* first concentration and of the last particle count, the version, the
\* error code, and a checksum word that is the sum of the first thirty
\* bytes (`off` = 0) or that sum plus `off`.
Packet(m1, conc, count, version, code, off) ==
    LET body == [i \in 0 .. PACKET_LEN - 3 |->
                    CASE i = 0 -> 66
                      [] i = 1 -> m1
                      [] i = 3 -> 28
                      [] i = 5 -> conc
                      [] i = 27 -> count
                      [] i = 28 -> version
                      [] i = 29 -> code
                      [] OTHER -> 0]
        sent == (byte_sum(body, PACKET_LEN - 2) + off) % 65536
    IN  [i \in 0 .. PACKET_LEN - 1 |->
            IF i = PACKET_LEN - 2 THEN sent \div 256
            ELSE IF i = PACKET_LEN - 1 THEN sent % 256
            ELSE body[i]]

Packets ==
    {Packet(m1, conc, count, version, code, off) :
        m1 \in {77, 0}, conc \in {0, 100, 255}, count \in {0, 7},
        version \in {0, 151}, code \in {0, 3}, off \in {0, 1}}

\* Pmsa003i::read_async, the bus read returning `bytes`.
Pmsa003iRead(bytes) ==
    /\ packet' = [state |-> "read", bytes |-> bytes, result |-> from_bytes(bytes)]
    /\ UNCHANGED packetFrame

\* Pmsa003i::read_async, the bus read failing: nothing is decoded.
Pmsa003iReadI2cFail ==
    /\ packet' = [state |-> "read", bytes |-> <<>>, result |-> [kind |-> "I2c"]]
    /\ UNCHANGED packetFrame

\* TryFrom<&[u8; PACKET_LEN]> for Reading
Pmsa003iTryFrom(bytes) ==
    /\ packet' = [state |-> "try_from", bytes |-> bytes,
                  result |-> from_bytes(bytes)]
    /\ UNCHANGED packetFrame

PacketInit ==
    /\ LibBase
    /\ sf = StateFileOpen(<<>>)
    /\ pollCount = PollCountNew("-", 1, 0, 0)
    /\ families = SensorMetricsNew
    /\ response = NoResponse
    /\ DrvIdle

PacketNext ==
    \/ \E bytes \in Packets : Pmsa003iRead(bytes)
    \/ Pmsa003iReadI2cFail
    \/ \E bytes \in Packets : Pmsa003iTryFrom(bytes)

SpecPacket == PacketInit /\ [][PacketNext]_vars

\* C40: a decoded packet is accepted exactly when its first word is the
\* magic, its byte 29 is zero and its last word is the sum of its first
\* thirty bytes; a packet without the magic is rejected as BadMagic, else one
\* with a non-zero byte 29 as ErrorCode carrying that byte, else one with a
\* wrong sum as Checksum.
C40_FromBytesAcceptsAndRejects ==
    packet.bytes # <<>> =>
        LET b == packet.bytes
            magicOk == words(b, 0) = MAGIC
            codeOk == b[29] = 0
            sumOk == words(b, 30) = byte_sum(b, 30)
        IN  /\ packet.result.kind = "Ok" <=> (magicOk /\ codeOk /\ sumOk)
            /\ ~magicOk => packet.result.kind = "BadMagic"
            /\ (magicOk /\ ~codeOk) =>
                   packet.result = [kind |-> "ErrorCode", code |-> b[29]]
            /\ (magicOk /\ codeOk /\ ~sumOk) => packet.result.kind = "Checksum"

====
